---- MODULE Spec2Model ----
(***************************************************************************)
(* PicoLightController (main.py v4.1.13): the BLE connection lifecycle,    *)
(* the memory-gated advertising restart of the main loop, the command      *)
(* handlers of the light service and the schedule interval test.           *)
(*                                                                         *)
(* Radio event callbacks (_irq_handler) run to completion and may arrive   *)
(* between any two steps of the main loop; the advertising restart of the  *)
(* main loop is therefore modelled statement by statement (pc).            *)
(***************************************************************************)
EXTENDS Integers, Sequences, FiniteSets, TLC

\* ------------------------------------------------------------------------
\* Bounds of the model
\* ------------------------------------------------------------------------
MaxConn == 2          \* connection handles the radio hands out: 1..MaxConn
MaxFaultAt == 9       \* a transport fault can hit the 1st..MaxFaultAt-th radio call of a handler
MaxSkips == 1         \* memory-gated skips counted since advertising last started
MaxPending == 2       \* write events that can wait for the handler at one time

\* ------------------------------------------------------------------------
\* config.py
\* ------------------------------------------------------------------------
MIN_MEM_ADV == 15000
BT_AUTO_CYCLE == TRUE

\* a Python str is the tuple of its characters
LIGHTS_ON_TIME == <<"1", "0", ":", "5", "0">>
LIGHTS_OFF_TIME == <<"2", "0", ":", "0", "0">>
ACTIVE_RECIPE == "veg_growth"

RECIPE_KEYS ==
  << "balanced", "warm", "cool", "daylight", "veg_growth", "bloom", "seedling", "succulent",
     "purple_glow", "sunrise", "sunset", "forest", "aquarium", "night_light", "inspection", "off" >>

LIGHT_RECIPES ==
  [ balanced |-> <<255, 64, 128, 255>>, warm |-> <<255, 140, 20, 255>>, cool |-> <<180, 200, 255, 255>>,
    daylight |-> <<255, 230, 210, 255>>, veg_growth |-> <<50, 255, 70, 200>>, bloom |-> <<255, 100, 10, 150>>,
    seedling |-> <<100, 100, 200, 150>>, succulent |-> <<220, 180, 40, 200>>, purple_glow |-> <<180, 0, 255, 0>>,
    sunrise |-> <<255, 50, 20, 100>>, sunset |-> <<255, 30, 0, 50>>, forest |-> <<30, 200, 30, 120>>,
    aquarium |-> <<0, 200, 255, 50>>, night_light |-> <<50, 20, 0, 30>>, inspection |-> <<255, 255, 255, 255>>,
    off |-> <<0, 0, 0, 0>> ]

\* ------------------------------------------------------------------------
\* BluetoothController: notification codes, characteristic handles
\* ------------------------------------------------------------------------
NTF_ACK_COMMAND_RECEIVED == 100
NTF_ERROR_INVALID_COMMAND == 101
NTF_AUTO_CYCLE_ENABLED == 102
NTF_AUTO_CYCLE_DISABLED == 103
NTF_SETTINGS_UPDATE == 113
NTF_STATUS_UPDATE == 120
NTF_MEMORY_UPDATE == 121
NTF_TIME_UPDATE == 131

\* value handles assigned by _register_services, in definition order
recipe_handle == "recipe"
custom_handle == "custom"
control_handle == "control"
illuminance_handle == "illuminance"
combined_sensor_handle == "combined_sensor"

\* Python's None for conn_handle
None == 0 - 1

ConnHandles == 1..MaxConn

disconnect_codes_short == {10, 11, 19, 104}

disconnect_codes == {10, 11, 19, 104, 128}

\* ------------------------------------------------------------------------
\* The radio's answers to gatts_notify / gatts_write
\* ------------------------------------------------------------------------
Ok == [type |-> "ok", code |-> 0]
OSError(c) == [type |-> "OSError", code |-> c]
OtherException == [type |-> "Exception", code |-> 0]

\* errno values the transport can report: the five the code classifies as
\* "peer gone", and one it does not (ENOMEM)
OSErrorCodes == {10, 11, 19, 104, 128, 12}
TransportErrors == {OSError(c) : c \in OSErrorCodes} \cup {OtherException}

\* the errors tried inside the event handlers: one peer-gone errno, one
\* other errno, one exception that is no OSError
IrqErrors == {OSError(128), OSError(12), OtherException}

\* A fault plan of one handler run: the at-th radio call raises err (at = 0:
\* none does).  Only the first peer-gone OSError of a run changes the
\* controller's state, so one fault per run reaches every state outcome.
NoFault == [at |-> 0, err |-> Ok]

\* the plans for a handler that makes at most k radio calls
FaultPlans(k, errs) ==
  {NoFault} \cup [at : 1..(IF k < MaxFaultAt THEN k ELSE MaxFaultAt), err : errs]

Outcome(fault, n) ==
  IF fault.at # 0 /\ n = fault.at THEN fault.err ELSE Ok

VARIABLES
  connected,            \* BluetoothController.connected
  conn_handle,          \* BluetoothController.conn_handle
  ble_needs_restart,    \* global ble_needs_restart
  advertising,          \* radio: gap_advertise is active
  links,                \* radio: handles of the links whose disconnect event is still to come
  pc,                   \* position of the main thread
  task_calls,           \* radio calls of the current / last advertising start
  irq_calls,            \* radio calls and strip writes of the last handler run, in order
  last_op,              \* the operation that made the last step, with its inputs
  skips,                \* memory-gated skips since advertising last started (up to MaxSkips)
  current_recipe_tuple, \* LightController.current_recipe_tuple
  current_recipe_name,  \* LightController.current_recipe_name
  auto_cycle_enabled,   \* LightController.auto_cycle_enabled
  tb_args,              \* is_time_between: <<current_hm_tuple, start_hm_tuple, end_hm_tuple>>
  tb_result,            \* is_time_between: <<>> before the call, then <<return value>>
  current_on_time_str,          \* global current_on_time_str
  current_off_time_str,         \* global current_off_time_str
  current_active_recipe_name,   \* global current_active_recipe_name
  settings_file,                \* SETTINGS_FILE on the flash: [exists, lines]
  auto_cycle_light_should_be_on, \* main: the on/off state the schedule applied last
  rtc,                  \* machine.RTC: <<year, month, day, weekday, hour, minute, second>>
  override_window,      \* "none", or "open" since the last manual command, "expired" once
                        \* the resume delay counted from that command has passed
  applied_block,        \* what the schedule applied last: <<"boot">> (nothing yet),
                        \* <<"none">> (off) or <<on time, off time, recipe>>
  gatt_value,           \* radio: the value each writable characteristic holds (gatts_read),
                        \* kept where write events wait for the handler
  pending_writes,       \* radio: write events not yet handed to _irq_handler, oldest first,
                        \* each with the value its write put into the characteristic
  last_temp_c,          \* global last_temp_c: None, or the reading in hundredths of a degree
  last_humidity,        \* global last_humidity: None, or hundredths of a percent
  last_co2,             \* global last_co2: None, or ppm
  last_pressure,        \* global last_pressure: None, or hundredths of a hPa
  last_lux              \* global last_lux: None, or hundredths of a lux

bleVars == <<connected, conn_handle, ble_needs_restart>>
radioVars == <<advertising, links>>
lightVars == <<current_recipe_tuple, current_recipe_name, auto_cycle_enabled>>
vars == <<connected, conn_handle, ble_needs_restart, advertising, links, pc,
          task_calls, irq_calls, last_op, skips, current_recipe_tuple, current_recipe_name,
          auto_cycle_enabled, tb_args, tb_result, current_on_time_str, current_off_time_str,
          current_active_recipe_name, settings_file, auto_cycle_light_should_be_on, rtc,
          override_window, applied_block, gatt_value, pending_writes,
          last_temp_c, last_humidity, last_co2, last_pressure, last_lux>>
timeVars == <<tb_args, tb_result>>
gattVars == <<gatt_value, pending_writes>>
envVars == <<last_temp_c, last_humidity, last_co2, last_pressure, last_lux>>
settingsVars == <<current_on_time_str, current_off_time_str, current_active_recipe_name, settings_file>>
schedVars == <<auto_cycle_light_should_be_on, rtc, applied_block>>
cmdVars == <<settingsVars, schedVars, override_window>>


\* ------------------------------------------------------------------------
\* LightController (cached colour, recipe name)
\* ------------------------------------------------------------------------
Clamp_high(c) == IF c > 255 THEN 255 ELSE c

\* max(0, min(255, int(c)))
Clamp(c) == IF c < 0 THEN 0 ELSE IF c > 255 THEN 255 ELSE c

ClampTuple(t) == <<Clamp(t[1]), Clamp(t[2]), Clamp(t[3]), Clamp(t[4])>>

RecipeNames == DOMAIN LIGHT_RECIPES

\* the reverse catalogue scan of set_all / get_current_recipe_name
\* (the catalogue colours are pairwise distinct, so the scan order is immaterial)
LookupName(t) ==
  IF \E nm \in RecipeNames : LIGHT_RECIPES[nm] = t
  THEN CHOOSE nm \in RecipeNames : LIGHT_RECIPES[nm] = t
  ELSE "custom"

Light(t, nm) == [tuple |-> t, name |-> nm]

\* set_all(r, g, b, w); np_ok: np.fill / np.write raised nothing
set_all_name_first(light, rgbw, np_ok) ==
  LET target_tuple == ClampTuple(rgbw) IN
  IF light.tuple = target_tuple THEN light
  ELSE IF np_ok THEN Light(target_tuple, LookupName(target_tuple))
  ELSE Light(light.tuple, LookupName(target_tuple))

set_all(light, rgbw, np_ok) ==
  LET target_tuple == ClampTuple(rgbw) IN
  IF light.tuple = target_tuple THEN light
  ELSE IF np_ok THEN Light(target_tuple, LookupName(target_tuple))
  ELSE light

\* fade_to(target): the step loop writes the strip only; the cached colour
\* and name change in the closing set_all, whose write is np_ok
fade_to(light, target_rgbw_tuple, np_ok) ==
  set_all(light, ClampTuple(target_rgbw_tuple), np_ok)

\* set_recipe_by_name: <<light, return value>>
set_recipe_by_name(light, recipe_name, np_ok) ==
  IF recipe_name \in RecipeNames
  THEN <<fade_to(light, LIGHT_RECIPES[recipe_name], np_ok), TRUE>>
  ELSE <<fade_to(light, LIGHT_RECIPES["off"], np_ok), FALSE>>

\* set_recipe_by_index: <<light, return value>>
set_recipe_by_index(light, recipe_index, np_ok) ==
  IF 0 <= recipe_index /\ recipe_index < Len(RECIPE_KEYS)
  THEN set_recipe_by_name(light, RECIPE_KEYS[recipe_index + 1], np_ok)
  ELSE <<fade_to(light, LIGHT_RECIPES["off"], np_ok), FALSE>>

get_current_recipe_name(light) == LookupName(light.tuple)

\* RECIPE_KEYS.index(name), 0-based; -1 stands for ValueError
KeyIndex(nm) ==
  IF \E i \in 1..Len(RECIPE_KEYS) : RECIPE_KEYS[i] = nm
  THEN (CHOOSE i \in 1..Len(RECIPE_KEYS) : RECIPE_KEYS[i] = nm) - 1
  ELSE 0 - 1

\* ------------------------------------------------------------------------
\* Schedule interval test
\* ------------------------------------------------------------------------
\* mutant: the midnight-crossing branch joins its two tests with "and"
is_time_between_and(current_hm_tuple, start_hm_tuple, end_hm_tuple) ==
  LET current_mins == current_hm_tuple[1] * 60 + current_hm_tuple[2]
      start_mins == start_hm_tuple[1] * 60 + start_hm_tuple[2]
      end_mins == end_hm_tuple[1] * 60 + end_hm_tuple[2]
  IN IF start_mins <= end_mins
     THEN start_mins <= current_mins /\ current_mins < end_mins
     ELSE current_mins >= start_mins /\ current_mins < end_mins

is_time_between(current_hm_tuple, start_hm_tuple, end_hm_tuple) ==
  LET current_mins == current_hm_tuple[1] * 60 + current_hm_tuple[2]
      start_mins == start_hm_tuple[1] * 60 + start_hm_tuple[2]
      end_mins == end_hm_tuple[1] * 60 + end_hm_tuple[2]
  IN IF start_mins <= end_mins
     THEN start_mins <= current_mins /\ current_mins < end_mins
     ELSE current_mins >= start_mins \/ current_mins < end_mins

\* ------------------------------------------------------------------------
\* BluetoothController: notification path.  st is the controller's view
\* while a handler runs: connected, conn_handle, flag (ble_needs_restart),
\* calls (radio calls that went through), n (radio calls attempted).
\* ------------------------------------------------------------------------
BleSt(c, h, f, calls, n) ==
  [connected |-> c, conn_handle |-> h, flag |-> f, calls |-> calls, n |-> n]

RadioCall(call, conn, handle, data) ==
  [call |-> call, conn |-> conn, handle |-> handle, data |-> data]

\* what fade_to hands to the strip: nothing when the cached colour is the
\* target already (426-427, 388-390), else the step loop (440-456; every
\* duration in use is at least 0.05 s) and the write of the closing set_all
fade_to_calls(light, target_rgbw_tuple) ==
  IF light.tuple = ClampTuple(target_rgbw_tuple) THEN <<>>
  ELSE << RadioCall("np_fade", None, "", ClampTuple(target_rgbw_tuple)),
          RadioCall("np_write", None, "", ClampTuple(target_rgbw_tuple)) >>

\* the handler's log after a fade_to
Faded(st, light, target_rgbw_tuple) ==
  [st EXCEPT !.calls = @ \o fade_to_calls(light, target_rgbw_tuple)]

\* the colour set_recipe_by_index fades to
IndexTarget(recipe_index) ==
  IF 0 <= recipe_index /\ recipe_index < Len(RECIPE_KEYS)
  THEN LIGHT_RECIPES[RECIPE_KEYS[recipe_index + 1]]
  ELSE LIGHT_RECIPES["off"]

_handle_ble_os_error_any(st, code) ==
  IF st.connected
  THEN [st EXCEPT !.connected = FALSE, !.conn_handle = None, !.flag = TRUE]
  ELSE st

_handle_ble_os_error(st, code) ==
  IF code \in disconnect_codes /\ st.connected
  THEN [st EXCEPT !.connected = FALSE, !.conn_handle = None, !.flag = TRUE]
  ELSE st

_send_notification_unchecked(st, data, handle, fault) ==
  LET n == st.n + 1
      o == Outcome(fault, n)
      s1 == [st EXCEPT !.n = n]
  IN IF o = Ok
     THEN [s1 EXCEPT !.calls = Append(@, RadioCall("gatts_notify", st.conn_handle, handle, data))]
     ELSE IF o.type = "OSError" THEN _handle_ble_os_error(s1, o.code)
     ELSE s1

_send_notification(st, data, handle, fault) ==
  IF st.connected /\ st.conn_handle # None
  THEN LET n == st.n + 1
           o == Outcome(fault, n)
           s1 == [st EXCEPT !.n = n]
       IN IF o = Ok
          THEN [s1 EXCEPT !.calls = Append(@, RadioCall("gatts_notify", st.conn_handle, handle, data))]
          ELSE IF o.type = "OSError" THEN _handle_ble_os_error(s1, o.code)
          ELSE s1
  ELSE st

\* the snapshots on the control characteristic (settings and memory: schema
\* code only)
_send_settings_update_notification(st, fault) ==
  IF ~st.connected THEN st
  ELSE _send_notification(st, <<NTF_SETTINGS_UPDATE>>, control_handle, fault)

_send_memory_update_notification(st, fault) ==
  IF ~st.connected THEN st
  ELSE _send_notification(st, <<NTF_MEMORY_UPDATE>>, control_handle, fault)

\* line 947: struct.pack('<BHBBBBBB', code, year, month, day, hour, minute,
\* second, wdjs) of now = rtc.datetime(), the year low byte first and the
\* weekday counted from Sunday; the RTC counts it from Monday
_send_time_update_notification_raw(st, now, fault) ==
  IF ~st.connected THEN st
  ELSE LET wdjs == now[4]
       IN _send_notification(st, <<NTF_TIME_UPDATE, now[1] % 256, now[1] \div 256, now[2], now[3],
                                   now[5], now[6], now[7], wdjs>>, control_handle, fault)

_send_time_update_notification(st, now, fault) ==
  IF ~st.connected THEN st
  ELSE LET wdjs == (now[4] + 1) % 7
       IN _send_notification(st, <<NTF_TIME_UPDATE, now[1] % 256, now[1] \div 256, now[2], now[3],
                                   now[5], now[6], now[7], wdjs>>, control_handle, fault)

DigitChars == <<"0", "1", "2", "3", "4", "5", "6", "7", "8", "9">>

\* f"{n:02d}" for n >= 0
format_02d(n) ==
  LET d(k) == DigitChars[k + 1]
  IN IF n < 10 THEN <<"0", d(n)>>
     ELSE IF n < 100 THEN <<d(n \div 10), d(n % 10)>>
     ELSE <<d(n \div 100), d((n \div 10) % 10), d(n % 10)>>

\* f"{x}" of a natural number x (places = 0), and f"{x:.1f}", f"{x:.2f}" of
\* a reading x >= 0 held in hundredths (places = 1 rounds to the nearest
\* tenth)
format_f(h, places) ==
  LET RECURSIVE digits(_)
      digits(k) == IF k < 10 THEN <<DigitChars[k + 1]>>
                   ELSE Append(digits(k \div 10), DigitChars[(k % 10) + 1])
      t == (h + 5) \div 10
  IN IF places = 0 THEN digits(h)
     ELSE IF places = 2 THEN digits(h \div 100) \o <<".">> \o format_02d(h % 100)
     ELSE digits(t \div 10) \o <<".">> \o <<DigitChars[(t % 10) + 1]>>

\* get_formatted_sensor_string (784-790): "N/A" for a reading that is None
get_formatted_sensor_string ==
  LET na == <<"N", "/", "A">>
      temp_str == IF last_temp_c # None THEN format_f(last_temp_c, 1) ELSE na
      humid_str == IF last_humidity # None THEN format_f(last_humidity, 1) ELSE na
      co2_str == IF last_co2 # None THEN format_f(last_co2, 0) ELSE na
      pressure_str == IF last_pressure # None THEN format_f(last_pressure, 2) ELSE na
      lux_str == IF last_lux # None THEN format_f(last_lux, 2) ELSE na
  IN temp_str \o <<",">> \o humid_str \o <<",">> \o co2_str \o <<",">> \o
     pressure_str \o <<",">> \o lux_str

\* struct.pack('<f', x) of a reading x >= 0 held in hundredths: the four
\* bytes, low byte first, of the IEEE 754 single nearest to x (sign 0,
\* biased exponent e + 127, 23 bits of mantissa, ties to even)
pack_f(h) ==
  IF h = 0 THEN <<0, 0, 0, 0>>
  ELSE LET e == CHOOSE k \in (0 - 7)..20 :
                  IF k >= 0 THEN 100 * 2^k <= h /\ h < 100 * 2^(k + 1)
                  ELSE 100 <= h * 2^(0 - k) /\ h * 2^(0 - k) < 200
           q == h * 2^(23 - e)
           m == q \div 100
           r == q % 100
           sig == IF r > 50 \/ (r = 50 /\ m % 2 = 1) THEN m + 1 ELSE m
           bits == IF sig = 2^24 THEN (e + 128) * 2^23
                   ELSE (e + 127) * 2^23 + (sig - 2^23)
       IN <<bits % 256, (bits \div 256) % 256, (bits \div 65536) % 256, bits \div 16777216>>

\* gatts_write of a sensor characteristic, then its notification
SensorCharUpdate(st, handle, data, fault) ==
  LET n == st.n + 1
      o == Outcome(fault, n)
      s1 == [st EXCEPT !.n = n]
  IN IF o = Ok
     THEN LET s2 == [s1 EXCEPT !.calls = Append(@, RadioCall("gatts_write", None, handle, data))]
          IN IF s2.connected /\ s2.conn_handle # None
             THEN _send_notification(s2, data, handle, fault)
             ELSE s2
     ELSE IF o.type = "OSError" THEN _handle_ble_os_error(s1, o.code)
     ELSE s1

update_combined_sensor_characteristic(st, fault) ==
  SensorCharUpdate(st, combined_sensor_handle, get_formatted_sensor_string, fault)

\* line 804: a reading of None is packed as 0.0
update_illuminance_characteristic(st, fault) ==
  LET lux_value == IF last_lux # None THEN last_lux ELSE 0
      lux_data == pack_f(lux_value)
  IN SensorCharUpdate(st, illuminance_handle, lux_data, fault)

\* one gatts_write of _update_light_characteristics: an error is logged only
LightCharWrite(st, handle, data, fault) ==
  LET n == st.n + 1
      s1 == [st EXCEPT !.n = n]
  IN IF Outcome(fault, n) = Ok
     THEN [s1 EXCEPT !.calls = Append(@, RadioCall("gatts_write", None, handle, data))]
     ELSE s1

_update_light_characteristics(st, light, fault) ==
  LET current_name == get_current_recipe_name(light)
      idx == IF KeyIndex(current_name) >= 0 THEN KeyIndex(current_name) ELSE KeyIndex("off")
      s1 == LightCharWrite(st, recipe_handle, <<idx>>, fault)
  IN LightCharWrite(s1, custom_handle, light.tuple, fault)

IrqConnectBody_time_first(h, light, fault) ==
  LET s0 == BleSt(TRUE, h, FALSE, <<RadioCall("gap_advertise", None, "", <<>>)>>, 0)
      s1 == _send_settings_update_notification(s0, fault)
      s2 == update_combined_sensor_characteristic(s1, fault)
      s3 == update_illuminance_characteristic(s2, fault)
      s4 == _send_time_update_notification(s3, rtc, fault)
      s5 == _send_memory_update_notification(s4, fault)
  IN _update_light_characteristics(s5, light, fault)

\* _irq_handler, _IRQ_CENTRAL_CONNECT
IrqConnectBody(h, light, fault) ==
  LET s0 == BleSt(TRUE, h, FALSE, <<RadioCall("gap_advertise", None, "", <<>>)>>, 0)
      s1 == _send_settings_update_notification(s0, fault)
      s2 == update_combined_sensor_characteristic(s1, fault)
      s3 == update_illuminance_characteristic(s2, fault)
      s4 == _send_memory_update_notification(s3, fault)
      s5 == _send_time_update_notification(s4, rtc, fault)
  IN _update_light_characteristics(s5, light, fault)

IrqDisconnectBody_noflag(st, h) ==
  IF h = st.conn_handle \/ st.conn_handle = None
  THEN [st EXCEPT !.connected = FALSE, !.conn_handle = None]
  ELSE st

\* _irq_handler, _IRQ_CENTRAL_DISCONNECT
IrqDisconnectBody(st, h) ==
  IF h = st.conn_handle \/ st.conn_handle = None
  THEN [st EXCEPT !.connected = FALSE, !.conn_handle = None, !.flag = TRUE]
  ELSE st

HandleRecipeWrite_keep_auto(st, light, auto, val, np_ok, fault) ==
  IF Len(val) = 1
  THEN LET idx == val[1]
           res == set_recipe_by_index(light, idx, np_ok)
           s2 == Faded(st, light, IndexTarget(idx))
           code == IF res[2] THEN NTF_ACK_COMMAND_RECEIVED ELSE NTF_ERROR_INVALID_COMMAND
       IN <<_send_notification(s2, <<code>>, control_handle, fault), res[1], auto>>
  ELSE <<_send_notification(st, <<NTF_ERROR_INVALID_COMMAND>>, control_handle, fault), light, auto>>

\* _handle_recipe_write: <<st, light, auto_cycle_enabled>> after the handler;
\* val is what gatts_read returns for the recipe characteristic
HandleRecipeWrite(st, light, auto, val, np_ok, fault) ==
  IF Len(val) = 1
  THEN LET idx == val[1]
           s1 == IF auto
                 THEN _send_notification(st, <<NTF_AUTO_CYCLE_DISABLED>>, control_handle, fault)
                 ELSE st
           res == set_recipe_by_index(light, idx, np_ok)
           s2 == Faded(s1, light, IndexTarget(idx))
           code == IF res[2] THEN NTF_ACK_COMMAND_RECEIVED ELSE NTF_ERROR_INVALID_COMMAND
       IN <<_send_notification(s2, <<code>>, control_handle, fault), res[1], FALSE>>
  ELSE <<_send_notification(st, <<NTF_ERROR_INVALID_COMMAND>>, control_handle, fault), light, auto>>

\* ------------------------------------------------------------------------
\* str and int as the settings code uses them
\* ------------------------------------------------------------------------

\* the spelling of each key of LIGHT_RECIPES
Spelling ==
  [ balanced |-> <<"b", "a", "l", "a", "n", "c", "e", "d">>,
    warm |-> <<"w", "a", "r", "m">>,
    cool |-> <<"c", "o", "o", "l">>,
    daylight |-> <<"d", "a", "y", "l", "i", "g", "h", "t">>,
    veg_growth |-> <<"v", "e", "g", "_", "g", "r", "o", "w", "t", "h">>,
    bloom |-> <<"b", "l", "o", "o", "m">>,
    seedling |-> <<"s", "e", "e", "d", "l", "i", "n", "g">>,
    succulent |-> <<"s", "u", "c", "c", "u", "l", "e", "n", "t">>,
    purple_glow |-> <<"p", "u", "r", "p", "l", "e", "_", "g", "l", "o", "w">>,
    sunrise |-> <<"s", "u", "n", "r", "i", "s", "e">>,
    sunset |-> <<"s", "u", "n", "s", "e", "t">>,
    forest |-> <<"f", "o", "r", "e", "s", "t">>,
    aquarium |-> <<"a", "q", "u", "a", "r", "i", "u", "m">>,
    night_light |-> <<"n", "i", "g", "h", "t", "_", "l", "i", "g", "h", "t">>,
    inspection |-> <<"i", "n", "s", "p", "e", "c", "t", "i", "o", "n">>,
    off |-> <<"o", "f", "f">> ]

\* s.strip(): s without its leading and trailing whitespace
strip(s) ==
  LET trim(inner) ==
        IF inner = {} THEN <<>>
        ELSE SubSeq(s, CHOOSE i \in inner : \A j \in inner : i <= j,
                       CHOOSE i \in inner : \A j \in inner : j <= i)
  IN trim({i \in 1..Len(s) : s[i] \notin {" ", "\t", "\r", "\n"}})

\* s.find(c) + 1: the position of the first c in s, 0 if there is none
find(s, c) ==
  IF \E i \in 1..Len(s) : s[i] = c
  THEN CHOOSE i \in 1..Len(s) : s[i] = c /\ \A j \in 1..(i - 1) : s[j] # c
  ELSE 0

RECURSIVE split(_, _)
split(s, c) ==
  LET cut(i) == IF i = 0 THEN <<s>> ELSE <<SubSeq(s, 1, i - 1)>> \o split(SubSeq(s, i + 1, Len(s)), c)
  IN cut(find(s, c))

upper(s) ==
  LET lower_case == <<"a", "b", "c", "d", "e", "f", "g", "h", "i", "j", "k", "l", "m", "n", "o", "p", "q", "r", "s", "t", "u", "v", "w", "x", "y", "z">>
      upper_case == <<"A", "B", "C", "D", "E", "F", "G", "H", "I", "J", "K", "L", "M", "N", "O", "P", "Q", "R", "S", "T", "U", "V", "W", "X", "Y", "Z">>
  IN [i \in 1..Len(s) |->
        IF \E k \in 1..26 : lower_case[k] = s[i]
        THEN upper_case[CHOOSE k \in 1..26 : lower_case[k] = s[i]]
        ELSE s[i]]

\* int(s): <<TRUE, value>>, or <<FALSE, 0>> where int raises ValueError
int(s) ==
  LET digit(c) == (CHOOSE k \in 1..10 : DigitChars[k] = c) - 1
      RECURSIVE value(_)
      value(d) == IF d = <<>> THEN 0
                  ELSE 10 * value(SubSeq(d, 1, Len(d) - 1)) + digit(d[Len(d)])
      unsigned(body) ==
        IF body = <<>> \/ \E i \in 1..Len(body) : body[i] \notin {DigitChars[k] : k \in 1..10}
        THEN <<FALSE, 0>>
        ELSE <<TRUE, value(body)>>
      signed(t) ==
        IF t # <<>> /\ t[1] = "-" THEN [unsigned(Tail(t)) EXCEPT ![2] = 0 - @]
        ELSE IF t # <<>> /\ t[1] = "+" THEN unsigned(Tail(t))
        ELSE unsigned(t)
  IN signed(strip(s))

\* h, m = map(int, s.split(':')): <<TRUE, <<h, m>>>>, or <<FALSE, <<0, 0>>>>
\* where the statement raises ValueError
parse_hm(s) ==
  LET pair(h, m) == IF h[1] /\ m[1] THEN <<TRUE, <<h[2], m[2]>>>> ELSE <<FALSE, <<0, 0>>>>
      unpack(parts) == IF Len(parts) = 2 THEN pair(int(parts[1]), int(parts[2]))
                       ELSE <<FALSE, <<0, 0>>>>
  IN unpack(split(s, ":"))

validate_time_format(time_str) ==
  /\ Len(time_str) = 5
  /\ time_str[3] = ":"
  /\ \E hm \in {parse_hm(time_str)} :
       /\ hm[1]
       /\ 0 <= hm[2][1] /\ hm[2][1] <= 23
       /\ 0 <= hm[2][2] /\ hm[2][2] <= 59

\* ------------------------------------------------------------------------
\* save_settings, load_settings
\* ------------------------------------------------------------------------
\* the keys of the settings file
KEY == [ON_TIME |-> <<"O", "N", "_", "T", "I", "M", "E">>,
        OFF_TIME |-> <<"O", "F", "F", "_", "T", "I", "M", "E">>,
        ACTIVE_RECIPE |-> <<"A", "C", "T", "I", "V", "E", "_", "R", "E", "C", "I", "P", "E">>]

Settings(on_t, off_t, active_recipe) == [on |-> on_t, off |-> off_t, recipe |-> active_recipe]
File(exists, lines) == [exists |-> exists, lines |-> lines]

\* the three lines save_settings writes
SettingsLines(on_time_str, off_time_str, active_recipe_name) ==
  << KEY.ON_TIME \o <<"=">> \o on_time_str,
     KEY.OFF_TIME \o <<"=">> \o off_time_str,
     KEY.ACTIVE_RECIPE \o <<"=">> \o Spelling[active_recipe_name] >>

\* how open(SETTINGS_FILE, "w") and the writes end: open failed (the file is
\* as it was), or the file was truncated and an error came after `lines`
\* lines (3: on flush / close), or everything was written
WriteOk == [opened |-> TRUE, lines |-> 3, ok |-> TRUE]
WriteOutcomes ==
  {WriteOk, [opened |-> FALSE, lines |-> 0, ok |-> FALSE]}
    \cup {[opened |-> TRUE, lines |-> k, ok |-> FALSE] : k \in 0..3}

save_settings_assign_first(mem, file, st, on_time_str, off_time_str, active_recipe_name, wr, fault) ==
  IF \/ ~validate_time_format(on_time_str)
     \/ ~validate_time_format(off_time_str)
     \/ active_recipe_name \notin DOMAIN LIGHT_RECIPES
     \/ active_recipe_name = "off"
  THEN [ret |-> FALSE, raised |-> FALSE, mem |-> mem, file |-> file, st |-> st]
  ELSE LET written == SettingsLines(on_time_str, off_time_str, active_recipe_name)
           file1 == IF wr.opened THEN File(TRUE, SubSeq(written, 1, wr.lines)) ELSE file
           mem1 == Settings(on_time_str, off_time_str, active_recipe_name)
       IN IF wr.ok
          THEN [ret |-> TRUE, raised |-> FALSE, mem |-> mem1, file |-> file1,
                st |-> IF st.connected THEN _send_settings_update_notification(st, fault) ELSE st]
          ELSE [ret |-> FALSE, raised |-> FALSE, mem |-> mem1, file |-> file1, st |-> st]

\* save_settings: ret is the return value, mem the three globals, file the
\* settings file and st the BLE state after the call; every exception of
\* the write is caught at line 229
save_settings_unchecked_on(mem, file, st, on_time_str, off_time_str, active_recipe_name, wr, fault) ==
  IF \/ ~validate_time_format(off_time_str)
     \/ active_recipe_name \notin DOMAIN LIGHT_RECIPES
     \/ active_recipe_name = "off"
  THEN [ret |-> FALSE, raised |-> FALSE, mem |-> mem, file |-> file, st |-> st]
  ELSE LET written == SettingsLines(on_time_str, off_time_str, active_recipe_name)
           file1 == IF wr.opened THEN File(TRUE, SubSeq(written, 1, wr.lines)) ELSE file
           mem1 == Settings(on_time_str, off_time_str, active_recipe_name)
       IN IF wr.ok
          THEN [ret |-> TRUE, raised |-> FALSE, mem |-> mem1, file |-> file1,
                st |-> IF st.connected THEN _send_settings_update_notification(st, fault) ELSE st]
          ELSE [ret |-> FALSE, raised |-> FALSE, mem |-> mem, file |-> file1, st |-> st]

save_settings(mem, file, st, on_time_str, off_time_str, active_recipe_name, wr, fault) ==
  IF \/ ~validate_time_format(on_time_str)
     \/ ~validate_time_format(off_time_str)
     \/ active_recipe_name \notin DOMAIN LIGHT_RECIPES
     \/ active_recipe_name = "off"
  THEN [ret |-> FALSE, raised |-> FALSE, mem |-> mem, file |-> file, st |-> st]
  ELSE LET written == SettingsLines(on_time_str, off_time_str, active_recipe_name)
           file1 == IF wr.opened THEN File(TRUE, SubSeq(written, 1, wr.lines)) ELSE file
           mem1 == Settings(on_time_str, off_time_str, active_recipe_name)
       IN IF wr.ok
          THEN [ret |-> TRUE, raised |-> FALSE, mem |-> mem1, file |-> file1,
                st |-> IF st.connected THEN _send_settings_update_notification(st, fault) ELSE st]
          ELSE [ret |-> FALSE, raised |-> FALSE, mem |-> mem, file |-> file1, st |-> st]

\* lines 250-254 for one line of the file: <<>> if the line is skipped, else
\* <<key, value>>
SettingOfLine(raw_line) ==
  LET setting(line, eq) ==
        IF line = <<>> \/ line[1] = "#" \/ eq = 0 THEN <<>>
        ELSE << upper(strip(SubSeq(line, 1, eq - 1))), strip(SubSeq(line, eq + 1, Len(line))) >>
      stripped(line) == setting(line, find(line, "="))
  IN stripped(strip(raw_line))

\* settings.get(key, default): <<TRUE, value>> of the last line that sets
\* key, <<FALSE, <<>>>> if none does
SettingsGet(lines, key) ==
  LET last(settings, hits) ==
        IF hits = {} THEN <<FALSE, <<>>>>
        ELSE <<TRUE, settings[CHOOSE i \in hits : \A j \in hits : j <= i][2]>>
      get(settings) == last(settings, {i \in 1..Len(lines) : settings[i] # <<>> /\ settings[i][1] = key})
  IN get([i \in 1..Len(lines) |-> SettingOfLine(lines[i])])

\* the key of LIGHT_RECIPES spelled s, "" if there is none
RecipeSpelled(s) ==
  IF \E n \in DOMAIN LIGHT_RECIPES : Spelling[n] = s
  THEN CHOOSE n \in DOMAIN LIGHT_RECIPES : Spelling[n] = s
  ELSE ""

load_settings_any_recipe(mem, file, st, rd, wr) ==
  LET defaults == Settings(LIGHTS_ON_TIME, LIGHTS_OFF_TIME, ACTIVE_RECIPE)
  IN IF ~file.exists
     THEN LET r == save_settings(mem, file, st, LIGHTS_ON_TIME, LIGHTS_OFF_TIME, ACTIVE_RECIPE, wr, NoFault)
          IN [raised |-> FALSE, mem |-> defaults, file |-> r.file, st |-> r.st]
     ELSE IF rd # "ok"
     THEN [raised |-> FALSE, mem |-> defaults, file |-> file, st |-> st]
     ELSE LET loaded_on_time == SettingsGet(file.lines, KEY.ON_TIME)
              loaded_off_time == SettingsGet(file.lines, KEY.OFF_TIME)
              loaded_recipe == SettingsGet(file.lines, KEY.ACTIVE_RECIPE)
              on_t == IF loaded_on_time[1] /\ validate_time_format(loaded_on_time[2])
                      THEN loaded_on_time[2] ELSE LIGHTS_ON_TIME
              off_t == IF loaded_off_time[1] /\ validate_time_format(loaded_off_time[2])
                       THEN loaded_off_time[2] ELSE LIGHTS_OFF_TIME
              active_recipe == IF loaded_recipe[1] /\ RecipeSpelled(loaded_recipe[2]) # ""
                               THEN RecipeSpelled(loaded_recipe[2]) ELSE ACTIVE_RECIPE
          IN [raised |-> FALSE, mem |-> Settings(on_t, off_t, active_recipe), file |-> file, st |-> st]

\* load_settings: mem are the three globals after the call; raised says
\* whether an exception left the function (each of its paths ends in a
\* handler: 255, 272, 292)
load_settings(mem, file, st, rd, wr) ==
  LET defaults == Settings(LIGHTS_ON_TIME, LIGHTS_OFF_TIME, ACTIVE_RECIPE)
  IN IF ~file.exists
     THEN LET r == save_settings(mem, file, st, LIGHTS_ON_TIME, LIGHTS_OFF_TIME, ACTIVE_RECIPE, wr, NoFault)
          IN [raised |-> FALSE, mem |-> defaults, file |-> r.file, st |-> r.st]
     ELSE IF rd # "ok"
     THEN [raised |-> FALSE, mem |-> defaults, file |-> file, st |-> st]
     ELSE LET loaded_on_time == SettingsGet(file.lines, KEY.ON_TIME)
              loaded_off_time == SettingsGet(file.lines, KEY.OFF_TIME)
              loaded_recipe == SettingsGet(file.lines, KEY.ACTIVE_RECIPE)
              on_t == IF loaded_on_time[1] /\ validate_time_format(loaded_on_time[2])
                      THEN loaded_on_time[2] ELSE LIGHTS_ON_TIME
              off_t == IF loaded_off_time[1] /\ validate_time_format(loaded_off_time[2])
                       THEN loaded_off_time[2] ELSE LIGHTS_OFF_TIME
              active_recipe == IF /\ loaded_recipe[1]
                                  /\ RecipeSpelled(loaded_recipe[2]) # ""
                                  /\ RecipeSpelled(loaded_recipe[2]) # "off"
                               THEN RecipeSpelled(loaded_recipe[2]) ELSE ACTIVE_RECIPE
          IN [raised |-> FALSE, mem |-> Settings(on_t, off_t, active_recipe), file |-> file, st |-> st]

\* ------------------------------------------------------------------------
\* BluetoothController: custom colour and control writes
\* ------------------------------------------------------------------------
HandleCustomWrite_keep_auto(st, light, auto, val, np_ok, fault) ==
  IF Len(val) = 4
  THEN LET s2 == Faded(st, light, val)
       IN <<_send_notification(s2, <<NTF_ACK_COMMAND_RECEIVED>>, control_handle, fault),
            fade_to(light, val, np_ok), auto>>
  ELSE <<_send_notification(st, <<NTF_ERROR_INVALID_COMMAND>>, control_handle, fault), light, auto>>

\* _handle_custom_write with set_custom_rgbw: <<st, light, auto_cycle_enabled>>
\* after the handler; val is what gatts_read returns for the characteristic
HandleCustomWrite(st, light, auto, val, np_ok, fault) ==
  IF Len(val) = 4
  THEN LET s1 == IF auto
                 THEN _send_notification(st, <<NTF_AUTO_CYCLE_DISABLED>>, control_handle, fault)
                 ELSE st
           s2 == Faded(s1, light, val)
       IN <<_send_notification(s2, <<NTF_ACK_COMMAND_RECEIVED>>, control_handle, fault),
            fade_to(light, val, np_ok), FALSE>>
  ELSE <<_send_notification(st, <<NTF_ERROR_INVALID_COMMAND>>, control_handle, fault), light, auto>>

\* what a control command works on
World(st, light, auto, mem, file, clock) ==
  [st |-> st, light |-> light, auto |-> auto, mem |-> mem, file |-> file, rtc |-> clock]

\* _process_control_command: the world after the command
_process_control_command(w, cmd_code, payload, np_ok, wr, fault) ==
  LET err(st) == _send_notification(st, <<NTF_ERROR_INVALID_COMMAND>>, control_handle, fault)
      ack(st) == _send_notification(st, <<NTF_ACK_COMMAND_RECEIVED>>, control_handle, fault)
      manual(recipe_name) ==
        LET s1 == IF w.auto
                  THEN _send_notification(w.st, <<NTF_AUTO_CYCLE_DISABLED>>, control_handle, fault)
                  ELSE w.st
            s2 == Faded(s1, w.light, LIGHT_RECIPES[recipe_name])
        IN [w EXCEPT !.st = ack(s2), !.auto = FALSE,
                     !.light = set_recipe_by_name(w.light, recipe_name, np_ok)[1]]
      saved(r) == [w EXCEPT !.st = IF r.ret THEN r.st ELSE err(r.st), !.mem = r.mem, !.file = r.file]
      save(on_time_str, off_time_str, active_recipe_name) ==
        saved(save_settings(w.mem, w.file, w.st, on_time_str, off_time_str, active_recipe_name, wr, fault))
      time_str == format_02d(payload[1]) \o <<":">> \o format_02d(payload[2])
  IN CASE cmd_code = 0 -> manual("off")
       [] cmd_code = 1 -> manual(w.mem.recipe)
       [] cmd_code = 2 ->
            [w EXCEPT !.auto = ~w.auto,
                      !.st = _send_notification(w.st, <<IF w.auto THEN NTF_AUTO_CYCLE_DISABLED
                                                        ELSE NTF_AUTO_CYCLE_ENABLED>>,
                                                control_handle, fault)]
       [] cmd_code = 13 ->
            IF Len(payload) = 1 /\ 0 <= payload[1] /\ payload[1] < Len(RECIPE_KEYS)
            THEN save(w.mem.on, w.mem.off, RECIPE_KEYS[payload[1] + 1])
            ELSE [w EXCEPT !.st = err(w.st)]
       [] cmd_code = 14 ->
            IF Len(payload) = 2 THEN save(time_str, w.mem.off, w.mem.recipe)
            ELSE [w EXCEPT !.st = err(w.st)]
       [] cmd_code = 15 ->
            IF Len(payload) = 2 THEN save(w.mem.on, time_str, w.mem.recipe)
            ELSE [w EXCEPT !.st = err(w.st)]
       [] cmd_code = 12 ->
            LET s1 == _send_settings_update_notification(w.st, fault)
                s2 == update_combined_sensor_characteristic(s1, fault)
                s3 == update_illuminance_characteristic(s2, fault)
                s4 == _send_memory_update_notification(s3, fault)
            IN [w EXCEPT !.st = _send_time_update_notification(s4, w.rtc, fault)]
       [] cmd_code = 20 ->
            [w EXCEPT !.st = _send_notification(w.st, <<NTF_STATUS_UPDATE>> \o w.light.tuple,
                                                control_handle, fault)]
       [] cmd_code = 30 ->
            IF Len(payload) = 8
            THEN LET yr == payload[1] + 256 * payload[2]
                     mo == payload[3]
                     d == payload[4]
                     hr == payload[5]
                     mn == payload[6]
                     sc == payload[7]
                     wdjs == payload[8]
                     wdmp == (wdjs - 1 + 7) % 7
                 IN IF /\ 2023 <= yr /\ yr <= 2100 /\ 1 <= mo /\ mo <= 12 /\ 1 <= d /\ d <= 31
                       /\ 0 <= hr /\ hr <= 23 /\ 0 <= mn /\ mn <= 59 /\ 0 <= sc /\ sc <= 59
                       /\ 0 <= wdjs /\ wdjs <= 6
                    THEN [w EXCEPT !.rtc = <<yr, mo, d, wdmp, hr, mn, sc>>,
                                   !.st = _send_time_update_notification(
                                            w.st, <<yr, mo, d, wdmp, hr, mn, sc>>, fault)]
                    ELSE [w EXCEPT !.st = err(w.st)]
            ELSE [w EXCEPT !.st = err(w.st)]
       [] OTHER -> [w EXCEPT !.st = err(w.st)]

\* _handle_control_write: an empty value is logged only (line 856)
HandleControlWrite_default_recipe(w, cmd_bytes, np_ok, wr, fault) ==
  IF Len(cmd_bytes) >= 1
  THEN LET r == _process_control_command(
                  IF cmd_bytes[1] = 1 THEN [w EXCEPT !.mem.recipe = ACTIVE_RECIPE] ELSE w,
                  cmd_bytes[1], Tail(cmd_bytes), np_ok, wr, fault)
       IN IF cmd_bytes[1] = 1 THEN [r EXCEPT !.mem = w.mem] ELSE r
  ELSE w

HandleControlWrite_toggle_acked(w, cmd_bytes, np_ok, wr, fault) ==
  IF Len(cmd_bytes) >= 1
  THEN LET r == _process_control_command(w, cmd_bytes[1], Tail(cmd_bytes), np_ok, wr, fault)
       IN IF cmd_bytes[1] = 2
          THEN [r EXCEPT !.st = _send_notification(r.st, <<NTF_ACK_COMMAND_RECEIVED>>,
                                                   control_handle, fault)]
          ELSE r
  ELSE w

HandleControlWrite_any_index(w, cmd_bytes, np_ok, wr, fault) ==
  IF Len(cmd_bytes) >= 1
  THEN IF cmd_bytes[1] = 13 /\ Len(cmd_bytes) = 2
       THEN _process_control_command(w, 13, <<cmd_bytes[2] % 8>>, np_ok, wr, fault)
       ELSE _process_control_command(w, cmd_bytes[1], Tail(cmd_bytes), np_ok, wr, fault)
  ELSE w

HandleControlWrite_any_weekday(w, cmd_bytes, np_ok, wr, fault) ==
  IF Len(cmd_bytes) >= 1
  THEN IF cmd_bytes[1] = 30 /\ Len(cmd_bytes) = 9
       THEN _process_control_command(w, 30, [Tail(cmd_bytes) EXCEPT ![8] = @ % 7], np_ok, wr, fault)
       ELSE _process_control_command(w, cmd_bytes[1], Tail(cmd_bytes), np_ok, wr, fault)
  ELSE w

HandleControlWrite_memory_first(w, cmd_bytes, np_ok, wr, fault) ==
  IF Len(cmd_bytes) >= 1
  THEN IF cmd_bytes[1] = 12
       THEN LET s1 == _send_memory_update_notification(w.st, fault)
                s2 == _send_settings_update_notification(s1, fault)
                s3 == update_combined_sensor_characteristic(s2, fault)
                s4 == update_illuminance_characteristic(s3, fault)
            IN [w EXCEPT !.st = _send_time_update_notification(s4, w.rtc, fault)]
       ELSE _process_control_command(w, cmd_bytes[1], Tail(cmd_bytes), np_ok, wr, fault)
  ELSE w

HandleControlWrite(w, cmd_bytes, np_ok, wr, fault) ==
  IF Len(cmd_bytes) >= 1
  THEN _process_control_command(w, cmd_bytes[1], Tail(cmd_bytes), np_ok, wr, fault)
  ELSE w

\* ------------------------------------------------------------------------
\* State machine
\* ------------------------------------------------------------------------
\* the clock when the program starts: <<year, month, day, weekday, hour, minute, second>>
BootClock == <<2025, 1, 1, 2, 9, 0, 0>>

\* what gc.mem_free() can return at the memory gate
MemValues == {MIN_MEM_ADV - 1, MIN_MEM_ADV}

\* values a client writes to the recipe characteristic
RecipeWriteValues == {<<>>, <<4>>, <<15>>, <<16>>, <<4, 4>>}

\* how a gap_advertise call can end
AdvOutcomes == {"ok", "OSError", "MemoryError", "Exception"}

\* err, at: the error a radio call of the operation raised and the number of
\* that call (Ok, 0: none raised); np: the strip took the operation's writes
\* wr: how the settings write of a control write ended
LastOp(op, h, val, err, at) ==
  [op |-> op, h |-> h, val |-> val, err |-> err, at |-> at, np |-> TRUE, wr |-> WriteOk]

WithNp(op_record, np_ok) == [op_record EXCEPT !.np = np_ok]

\* the strip took every write the handler made (none made: TRUE)
NpTook(calls, np_ok) ==
  np_ok \/ ~(\E i \in 1..Len(calls) : calls[i].call = "np_write")

\* the error of the fault plan if one of the n attempted radio calls met it
HitErr(fault, n) == IF fault.at # 0 /\ fault.at <= n THEN fault.err ELSE Ok
HitAt(fault, n) == IF fault.at # 0 /\ fault.at <= n THEN fault.at ELSE 0

Flag01(b) == IF b THEN 1 ELSE 0

\* no finished operation is on record: the main loop or the radio is about
\* to make its next step
Quiet == last_op.op \in {"init", "none"}

CurLight == Light(current_recipe_tuple, current_recipe_name)
CurSt == BleSt(connected, conn_handle, ble_needs_restart, <<>>, 0)
Mem == Settings(current_on_time_str, current_off_time_str, current_active_recipe_name)

\* LightController.__init__, BluetoothController.__init__ up to its call of
\* _start_advertising
Init ==
  /\ connected = FALSE
  /\ conn_handle = None
  /\ ble_needs_restart = FALSE
  /\ advertising = FALSE
  /\ links = {}
  /\ pc = "adv_gate"
  /\ task_calls = <<>>
  /\ irq_calls = <<>>
  /\ last_op = LastOp("init", None, <<>>, Ok, 0)
  /\ skips = 0
  /\ current_recipe_tuple = LIGHT_RECIPES["off"]
  /\ current_recipe_name = "off"
  /\ auto_cycle_enabled = BT_AUTO_CYCLE
  /\ tb_args = <<<<0, 0>>, <<0, 0>>, <<0, 0>>>>
  /\ tb_result = <<>>
  /\ current_on_time_str = LIGHTS_ON_TIME
  /\ current_off_time_str = LIGHTS_OFF_TIME
  /\ current_active_recipe_name = ACTIVE_RECIPE
  /\ settings_file = File(TRUE, SettingsLines(LIGHTS_ON_TIME, LIGHTS_OFF_TIME, ACTIVE_RECIPE))
  /\ auto_cycle_light_should_be_on = FALSE
  /\ rtc = BootClock
  /\ override_window = "none"
  /\ applied_block = <<"boot">>
  /\ gatt_value = [c \in {recipe_handle, custom_handle, control_handle} |-> <<>>]
  /\ pending_writes = <<>>
  /\ last_temp_c = None /\ last_humidity = None /\ last_co2 = None
  /\ last_pressure = None /\ last_lux = None

\* ---- main loop: advertising restart check (1156-1178) ----
\* line 1159: if ble_needs_restart
RestartCheckFlag ==
  /\ Quiet
  /\ pc = "idle"
  /\ ble_needs_restart
  /\ pc' = "restart_conn"
  /\ last_op' = LastOp("restart_check_flag", None, <<>>, Ok, 0)
  /\ irq_calls' = <<>>
  /\ UNCHANGED <<bleVars, radioVars, task_calls, lightVars, skips, timeVars, gattVars, envVars, cmdVars>>

RestartCheckConnected_any ==
  /\ Quiet
  /\ pc = "restart_conn"
  /\ pc' = "restart_clear"
  /\ UNCHANGED ble_needs_restart
  /\ last_op' = LastOp("restart_check_connected", None, <<Flag01(ble_needs_restart)>>, Ok, 0)
  /\ irq_calls' = <<>>
  /\ UNCHANGED <<connected, conn_handle, radioVars, task_calls, lightVars, skips, timeVars, gattVars, envVars, cmdVars>>

\* line 1160 / 1176-1178: if not bt_instance.connected ... else clear the flag
RestartCheckConnected ==
  /\ Quiet
  /\ pc = "restart_conn"
  /\ IF ~connected
     THEN /\ pc' = "restart_clear"
          /\ UNCHANGED ble_needs_restart
     ELSE /\ pc' = "idle"
          /\ ble_needs_restart' = FALSE
  /\ last_op' = LastOp("restart_check_connected", None, <<Flag01(ble_needs_restart)>>, Ok, 0)
  /\ irq_calls' = <<>>
  /\ UNCHANGED <<connected, conn_handle, radioVars, task_calls, lightVars, skips, timeVars, gattVars, envVars, cmdVars>>

\* line 1165-1169: clear the flag, collect, call _start_advertising
RestartClearFlag ==
  /\ Quiet
  /\ pc = "restart_clear"
  /\ ble_needs_restart' = FALSE
  /\ pc' = "adv_gate"
  /\ task_calls' = <<>>
  /\ last_op' = LastOp("restart_clear_flag", None, <<>>, Ok, 0)
  /\ irq_calls' = <<>>
  /\ UNCHANGED <<connected, conn_handle, radioVars, lightVars, skips, timeVars, gattVars, envVars, cmdVars>>

\* ---- _start_advertising (661-710) ----
AdvGate_keep(mem_before_adv) ==
  /\ Quiet
  /\ pc = "adv_gate"
  /\ IF mem_before_adv < MIN_MEM_ADV
     THEN /\ UNCHANGED ble_needs_restart
          /\ pc' = "idle"
          /\ skips' = (IF skips < MaxSkips THEN skips + 1 ELSE skips)
          /\ last_op' = LastOp("adv_skipped", None, <<mem_before_adv, Flag01(ble_needs_restart)>>, Ok, 0)
     ELSE /\ UNCHANGED ble_needs_restart
          /\ pc' = "adv_stop"
          /\ UNCHANGED skips
          /\ last_op' = LastOp("adv_gate_passed", None, <<mem_before_adv, Flag01(ble_needs_restart)>>, Ok, 0)
  /\ irq_calls' = <<>>
  /\ UNCHANGED <<connected, conn_handle, radioVars, task_calls, lightVars, timeVars, gattVars, envVars, cmdVars>>

\* line 666-673: the memory gate
AdvGate(mem_before_adv) ==
  /\ Quiet
  /\ pc = "adv_gate"
  /\ IF mem_before_adv < MIN_MEM_ADV
     THEN /\ ble_needs_restart' = TRUE
          /\ pc' = "idle"
          /\ skips' = (IF skips < MaxSkips THEN skips + 1 ELSE skips)
          /\ last_op' = LastOp("adv_skipped", None, <<mem_before_adv, Flag01(ble_needs_restart)>>, Ok, 0)
     ELSE /\ UNCHANGED ble_needs_restart
          /\ pc' = "adv_stop"
          /\ UNCHANGED skips
          /\ last_op' = LastOp("adv_gate_passed", None, <<mem_before_adv, Flag01(ble_needs_restart)>>, Ok, 0)
  /\ irq_calls' = <<>>
  /\ UNCHANGED <<connected, conn_handle, radioVars, task_calls, lightVars, timeVars, gattVars, envVars, cmdVars>>

\* line 683-686: gap_advertise(None); an OSError is ignored, anything else
\* leaves through the outer handlers (697-710)
AdvStop(outcome) ==
  /\ Quiet
  /\ pc = "adv_stop"
  /\ IF outcome = "ok"
     THEN /\ advertising' = FALSE
          /\ task_calls' = Append(task_calls, RadioCall("gap_advertise", None, "", <<>>))
          /\ pc' = "adv_start"
          /\ UNCHANGED ble_needs_restart
     ELSE IF outcome = "OSError"
     THEN /\ pc' = "adv_start"
          /\ UNCHANGED <<advertising, task_calls, ble_needs_restart>>
     ELSE /\ ble_needs_restart' = TRUE
          /\ pc' = "idle"
          /\ UNCHANGED <<advertising, task_calls>>
  /\ last_op' = LastOp("adv_stop", None, <<>>,
                        IF outcome = "ok" THEN Ok
                        ELSE IF outcome = "OSError" THEN OSError(22) ELSE OtherException, 0)
  /\ irq_calls' = <<>>
  /\ UNCHANGED <<connected, conn_handle, links, lightVars, skips, timeVars, gattVars, envVars, cmdVars>>

\* line 689, 697-710: gap_advertise(interval, adv_data)
AdvStart(outcome) ==
  /\ Quiet
  /\ pc = "adv_start"
  /\ IF outcome = "ok"
     THEN /\ advertising' = TRUE
          /\ task_calls' = Append(task_calls, RadioCall("gap_advertise", None, "", <<1>>))
          /\ pc' = "adv_clear"
          /\ UNCHANGED ble_needs_restart
     ELSE /\ ble_needs_restart' = TRUE
          /\ pc' = "idle"
          /\ UNCHANGED <<advertising, task_calls>>
  /\ last_op' = LastOp("adv_start", None, <<>>, IF outcome = "ok" THEN Ok ELSE OtherException, 0)
  /\ irq_calls' = <<>>
  /\ UNCHANGED <<connected, conn_handle, links, lightVars, skips, timeVars, gattVars, envVars, cmdVars>>

AdvClear_keep ==
  /\ Quiet
  /\ pc = "adv_clear"
  /\ UNCHANGED ble_needs_restart
  /\ pc' = "idle"
  /\ skips' = 0
  /\ last_op' = LastOp("adv_started", None, <<skips>>, Ok, 0)
  /\ irq_calls' = <<>>
  /\ UNCHANGED <<connected, conn_handle, radioVars, task_calls, lightVars, timeVars, gattVars, envVars, cmdVars>>

\* line 692-695: log, blink, ble_needs_restart = False
AdvClear ==
  /\ Quiet
  /\ pc = "adv_clear"
  /\ ble_needs_restart' = FALSE
  /\ pc' = "idle"
  /\ skips' = 0
  /\ last_op' = LastOp("adv_started", None, <<skips>>, Ok, 0)
  /\ irq_calls' = <<>>
  /\ UNCHANGED <<connected, conn_handle, radioVars, task_calls, lightVars, timeVars, gattVars, envVars, cmdVars>>

\* ---- main loop: periodic sensor characteristic update (1149-1154) ----
SensorUpdateTask(fault) ==
  /\ Quiet
  /\ pc = "idle"
  /\ connected
  /\ LET s1 == update_combined_sensor_characteristic(CurSt, fault)
         s2 == update_illuminance_characteristic(s1, fault)
     IN /\ connected' = s2.connected
        /\ conn_handle' = s2.conn_handle
        /\ ble_needs_restart' = s2.flag
        /\ irq_calls' = s2.calls
        /\ last_op' = LastOp("sensor_update", None, <<>>, HitErr(fault, s2.n), HitAt(fault, s2.n))
  /\ UNCHANGED <<radioVars, pc, task_calls, lightVars, skips, timeVars, gattVars, envVars, cmdVars>>

\* ---- _irq_handler (713-765) ----
\* a central connects: the radio accepts it only while advertising, and
\* advertising ends with the connection, whatever gap_advertise(None) at
\* line 730 returns (its exception is passed over at line 731)
IrqConnect(h, fault) ==
  /\ Quiet
  /\ pc # "stopped"
  /\ advertising
  /\ h \in ConnHandles \ links
  /\ \A g \in ConnHandles \ links : h <= g
  /\ LET st == IrqConnectBody(h, CurLight, fault)
     IN /\ connected' = st.connected
        /\ conn_handle' = st.conn_handle
        /\ ble_needs_restart' = st.flag
        /\ irq_calls' = st.calls
        /\ last_op' = LastOp("connect", h, <<>>, HitErr(fault, st.n), HitAt(fault, st.n))
  /\ advertising' = FALSE
  /\ links' = links \cup {h}
  /\ current_recipe_name' = get_current_recipe_name(CurLight)
  /\ UNCHANGED <<pc, task_calls, current_recipe_tuple, auto_cycle_enabled, skips, timeVars, gattVars, envVars, cmdVars>>

\* the link h ends
IrqDisconnect(h) ==
  /\ Quiet
  /\ pc # "stopped"
  /\ h \in links
  /\ LET st == IrqDisconnectBody(CurSt, h)
     IN /\ connected' = st.connected
        /\ conn_handle' = st.conn_handle
        /\ ble_needs_restart' = st.flag
  /\ links' = links \ {h}
  /\ irq_calls' = <<>>
  /\ last_op' = LastOp("disconnect", h, <<conn_handle>>, Ok, 0)
  /\ UNCHANGED <<advertising, pc, task_calls, lightVars, skips, timeVars, gattVars, envVars, cmdVars>>

\* the peer on link h writes val to the recipe characteristic
IrqRecipeWrite_unbound(h, val, np_ok, fault) ==
  /\ Quiet
  /\ pc # "stopped"
  /\ h \in links
  /\ IF h = conn_handle \/ conn_handle = None
     THEN \E r \in {HandleRecipeWrite(CurSt, CurLight, auto_cycle_enabled, val, np_ok, fault)} :
             /\ connected' = r[1].connected
             /\ conn_handle' = r[1].conn_handle
             /\ ble_needs_restart' = r[1].flag
             /\ irq_calls' = r[1].calls
             /\ current_recipe_tuple' = r[2].tuple
             /\ current_recipe_name' = r[2].name
             /\ auto_cycle_enabled' = r[3]
             /\ last_op' = WithNp(LastOp("recipe_write", h, val, HitErr(fault, r[1].n),
                                          HitAt(fault, r[1].n)), NpTook(r[1].calls, np_ok))
     ELSE /\ irq_calls' = <<>>
          /\ last_op' = LastOp("write_ignored", h, val, Ok, 0)
          /\ UNCHANGED <<bleVars, lightVars>>
  /\ override_window' = (IF h = conn_handle /\ Len(val) = 1 THEN "open" ELSE override_window)
  /\ UNCHANGED <<radioVars, pc, task_calls, skips, timeVars, gattVars, envVars, settingsVars, schedVars>>

IrqRecipeWrite(h, val, np_ok, fault) ==
  /\ Quiet
  /\ pc # "stopped"
  /\ h \in links
  /\ IF h = conn_handle
     THEN \E r \in {HandleRecipeWrite(CurSt, CurLight, auto_cycle_enabled, val, np_ok, fault)} :
             /\ connected' = r[1].connected
             /\ conn_handle' = r[1].conn_handle
             /\ ble_needs_restart' = r[1].flag
             /\ irq_calls' = r[1].calls
             /\ current_recipe_tuple' = r[2].tuple
             /\ current_recipe_name' = r[2].name
             /\ auto_cycle_enabled' = r[3]
             /\ last_op' = WithNp(LastOp("recipe_write", h, val, HitErr(fault, r[1].n),
                                          HitAt(fault, r[1].n)), NpTook(r[1].calls, np_ok))
     ELSE /\ irq_calls' = <<>>
          /\ last_op' = LastOp("write_ignored", h, val, Ok, 0)
          /\ UNCHANGED <<bleVars, lightVars>>
  /\ override_window' = (IF h = conn_handle /\ Len(val) = 1 THEN "open" ELSE override_window)
  /\ UNCHANGED <<radioVars, pc, task_calls, skips, timeVars, gattVars, envVars, settingsVars, schedVars>>

\* ---- main: the cleanup sequence (1220-1233), BluetoothController.cleanup ----
Shutdown(np_ok) ==
  /\ Quiet
  /\ pc # "stopped"
  /\ LET r == set_recipe_by_name(CurLight, "off", np_ok)
     IN /\ current_recipe_tuple' = r[1].tuple
        /\ current_recipe_name' = r[1].name
  /\ connected' = FALSE
  /\ conn_handle' = None
  /\ advertising' = FALSE
  /\ links' = {}
  /\ pc' = "stopped"
  /\ last_op' = LastOp("cleanup", None, <<>>, Ok, 0)
  /\ task_calls' = <<>>
  /\ irq_calls' = <<>>
  /\ UNCHANGED <<ble_needs_restart, auto_cycle_enabled, skips, timeVars, gattVars, envVars, cmdVars>>

\* the peer on link h writes val to the custom colour characteristic
IrqCustomWrite(h, val, np_ok, fault) ==
  /\ Quiet
  /\ pc # "stopped"
  /\ h \in links
  /\ IF h = conn_handle
     THEN \E r \in {HandleCustomWrite(CurSt, CurLight, auto_cycle_enabled, val, np_ok, fault)} :
             /\ connected' = r[1].connected
             /\ conn_handle' = r[1].conn_handle
             /\ ble_needs_restart' = r[1].flag
             /\ irq_calls' = r[1].calls
             /\ current_recipe_tuple' = r[2].tuple
             /\ current_recipe_name' = r[2].name
             /\ auto_cycle_enabled' = r[3]
             /\ last_op' = WithNp(LastOp("custom_write", h, val, HitErr(fault, r[1].n),
                                          HitAt(fault, r[1].n)), NpTook(r[1].calls, np_ok))
     ELSE /\ irq_calls' = <<>>
          /\ last_op' = LastOp("write_ignored", h, val, Ok, 0)
          /\ UNCHANGED <<bleVars, lightVars>>
  /\ override_window' = (IF h = conn_handle /\ Len(val) = 4 THEN "open" ELSE override_window)
  /\ UNCHANGED <<radioVars, pc, task_calls, skips, timeVars, gattVars, envVars, settingsVars, schedVars>>

\* the peer on link h writes val to the control characteristic; the strip
\* is written by opcodes 0 and 1 only and the settings file by 13, 14 and
\* 15 only, so np_ok and wr are drawn for those
IrqControlWrite(h, val, np_ok, wr, fault) ==
  /\ Quiet
  /\ pc # "stopped"
  /\ h \in links
  /\ np_ok \/ (h = conn_handle /\ val # <<>> /\ val[1] \in {0, 1})
  /\ wr = WriteOk \/ (h = conn_handle /\ val # <<>> /\ val[1] \in {13, 14, 15})
  /\ IF h = conn_handle
     THEN \E w \in {HandleControlWrite(World(CurSt, CurLight, auto_cycle_enabled, Mem, settings_file, rtc),
                                        val, np_ok, wr, fault)} :
             /\ connected' = w.st.connected
             /\ conn_handle' = w.st.conn_handle
             /\ ble_needs_restart' = w.st.flag
             /\ irq_calls' = w.st.calls
             /\ current_recipe_tuple' = w.light.tuple
             /\ current_recipe_name' = w.light.name
             /\ auto_cycle_enabled' = w.auto
             /\ current_on_time_str' = w.mem.on
             /\ current_off_time_str' = w.mem.off
             /\ current_active_recipe_name' = w.mem.recipe
             /\ settings_file' = w.file
             /\ rtc' = w.rtc
             /\ last_op' = [WithNp(LastOp("control_write", h, val, HitErr(fault, w.st.n),
                                           HitAt(fault, w.st.n)), NpTook(w.st.calls, np_ok))
                               EXCEPT !.wr = wr]
             /\ override_window' = (IF val # <<>> /\ val[1] \in {0, 1} THEN "open" ELSE override_window)
     ELSE /\ irq_calls' = <<>>
          /\ last_op' = LastOp("write_ignored", h, val, Ok, 0)
          /\ UNCHANGED <<bleVars, lightVars, settingsVars, rtc, override_window>>
  /\ UNCHANGED <<radioVars, pc, task_calls, skips, timeVars, gattVars, envVars, auto_cycle_light_should_be_on, applied_block>>

\* ---- main: the initial light state (1079-1102) ----
InitialLight_no_interval(np_ok) ==
  /\ Quiet
  /\ pc = "initial_light"
  /\ \E on_hm \in {parse_hm(current_on_time_str)}, off_hm \in {parse_hm(current_off_time_str)} :
     LET \* FALSE in manual mode (1101) and where the parse raises (1094)
         should_be_on == /\ auto_cycle_enabled
                         /\ on_hm[1] /\ off_hm[1]
         target_recipe == IF should_be_on THEN current_active_recipe_name ELSE "off"
         r == set_recipe_by_name(CurLight, target_recipe, np_ok)
     IN /\ auto_cycle_light_should_be_on' = should_be_on
        /\ current_recipe_tuple' = r[1].tuple
        /\ current_recipe_name' = r[1].name
        /\ irq_calls' = fade_to_calls(CurLight, LIGHT_RECIPES[target_recipe])
        /\ applied_block' = IF should_be_on
                            THEN <<current_on_time_str, current_off_time_str, current_active_recipe_name>>
                            ELSE <<"none">>
        /\ last_op' = WithNp(LastOp("initial_light", None, <<>>, Ok, 0), NpTook(irq_calls', np_ok))
  /\ pc' = "idle"
  /\ UNCHANGED <<bleVars, radioVars, task_calls, skips, auto_cycle_enabled, timeVars, gattVars, envVars, settingsVars,
                 rtc, override_window>>

InitialLight(np_ok) ==
  /\ Quiet
  /\ pc = "initial_light"
  /\ \E on_hm \in {parse_hm(current_on_time_str)}, off_hm \in {parse_hm(current_off_time_str)} :
     LET \* FALSE in manual mode (1101) and where the parse raises (1094)
         should_be_on == /\ auto_cycle_enabled
                         /\ on_hm[1] /\ off_hm[1]
                         /\ is_time_between(<<rtc[5], rtc[6]>>, on_hm[2], off_hm[2])
         target_recipe == IF should_be_on THEN current_active_recipe_name ELSE "off"
         r == set_recipe_by_name(CurLight, target_recipe, np_ok)
     IN /\ auto_cycle_light_should_be_on' = should_be_on
        /\ current_recipe_tuple' = r[1].tuple
        /\ current_recipe_name' = r[1].name
        /\ irq_calls' = fade_to_calls(CurLight, LIGHT_RECIPES[target_recipe])
        /\ applied_block' = IF should_be_on
                            THEN <<current_on_time_str, current_off_time_str, current_active_recipe_name>>
                            ELSE <<"none">>
        /\ last_op' = WithNp(LastOp("initial_light", None, <<>>, Ok, 0), NpTook(irq_calls', np_ok))
  /\ pc' = "idle"
  /\ UNCHANGED <<bleVars, radioVars, task_calls, skips, auto_cycle_enabled, timeVars, gattVars, envVars, settingsVars,
                 rtc, override_window>>

\* ---- main loop: auto cycle logic (1180-1200) ----
AutoCycleTick_always(np_ok, fault) ==
  /\ Quiet
  /\ pc = "idle"
  /\ \E on_hm \in {parse_hm(current_on_time_str)}, off_hm \in {parse_hm(current_off_time_str)} :
     LET desired_on_state == is_time_between(<<rtc[5], rtc[6]>>, on_hm[2], off_hm[2])
     IN IF on_hm[1] /\ off_hm[1] /\ desired_on_state # auto_cycle_light_should_be_on
        THEN LET target_recipe == IF desired_on_state THEN current_active_recipe_name ELSE "off"
                 r == set_recipe_by_name(CurLight, target_recipe, np_ok)
                 s1 == Faded(CurSt, CurLight, LIGHT_RECIPES[target_recipe])
                 s2 == IF connected THEN _update_light_characteristics(s1, r[1], fault) ELSE s1
             IN /\ auto_cycle_light_should_be_on' = desired_on_state
                /\ current_recipe_tuple' = r[1].tuple
                /\ current_recipe_name' = r[1].name
                /\ irq_calls' = s2.calls
                /\ applied_block' = IF desired_on_state
                                    THEN <<current_on_time_str, current_off_time_str, current_active_recipe_name>>
                                    ELSE <<"none">>
                /\ last_op' = WithNp(LastOp("tick", None, <<1>>, HitErr(fault, s2.n), HitAt(fault, s2.n)),
                                     NpTook(s2.calls, np_ok))
        ELSE /\ irq_calls' = <<>>
             /\ last_op' = LastOp("tick", None, <<0>>, Ok, 0)
             /\ UNCHANGED <<current_recipe_tuple, current_recipe_name, auto_cycle_light_should_be_on,
                            applied_block>>
  /\ override_window' = (IF override_window = "expired" THEN "none" ELSE override_window)
  /\ UNCHANGED <<bleVars, radioVars, pc, task_calls, skips, auto_cycle_enabled, timeVars, gattVars, envVars, settingsVars, rtc>>

\* one pass of the main loop over the schedule check, due or not; val is
\* <<1>> when the pass applied a transition, <<0>> when it did not
AutoCycleTick(np_ok, fault) ==
  /\ Quiet
  /\ pc = "idle"
  /\ \E on_hm \in {parse_hm(current_on_time_str)}, off_hm \in {parse_hm(current_off_time_str)} :
     LET desired_on_state == is_time_between(<<rtc[5], rtc[6]>>, on_hm[2], off_hm[2])
     IN IF /\ auto_cycle_enabled
           /\ on_hm[1] /\ off_hm[1]
           /\ desired_on_state # auto_cycle_light_should_be_on
        THEN LET target_recipe == IF desired_on_state THEN current_active_recipe_name ELSE "off"
                 r == set_recipe_by_name(CurLight, target_recipe, np_ok)
                 s1 == Faded(CurSt, CurLight, LIGHT_RECIPES[target_recipe])
                 s2 == IF connected THEN _update_light_characteristics(s1, r[1], fault) ELSE s1
             IN /\ auto_cycle_light_should_be_on' = desired_on_state
                /\ current_recipe_tuple' = r[1].tuple
                /\ current_recipe_name' = r[1].name
                /\ irq_calls' = s2.calls
                /\ applied_block' = IF desired_on_state
                                    THEN <<current_on_time_str, current_off_time_str, current_active_recipe_name>>
                                    ELSE <<"none">>
                /\ last_op' = WithNp(LastOp("tick", None, <<1>>, HitErr(fault, s2.n), HitAt(fault, s2.n)),
                                     NpTook(s2.calls, np_ok))
        ELSE /\ irq_calls' = <<>>
             /\ last_op' = LastOp("tick", None, <<0>>, Ok, 0)
             /\ UNCHANGED <<current_recipe_tuple, current_recipe_name, auto_cycle_light_should_be_on,
                            applied_block>>
  /\ override_window' = (IF override_window = "expired" THEN "none" ELSE override_window)
  /\ UNCHANGED <<bleVars, radioVars, pc, task_calls, skips, auto_cycle_enabled, timeVars, gattVars, envVars, settingsVars, rtc>>

\* the clock reaches minute m of the day
ClockAdvance(m) ==
  /\ Quiet
  /\ pc # "stopped"
  /\ <<rtc[5], rtc[6]>> # <<m \div 60, m % 60>>
  /\ rtc' = [rtc EXCEPT ![5] = m \div 60, ![6] = m % 60, ![7] = 0]
  /\ UNCHANGED <<bleVars, radioVars, pc, task_calls, irq_calls, last_op, skips, lightVars, timeVars, gattVars, envVars,
                 settingsVars, auto_cycle_light_should_be_on, applied_block, override_window>>

\* the resume delay counted from the last manual command has passed
WindowExpires ==
  /\ Quiet
  /\ pc # "stopped"
  /\ override_window = "open"
  /\ override_window' = "expired"
  /\ UNCHANGED <<bleVars, radioVars, pc, task_calls, irq_calls, last_op, skips, lightVars, timeVars, gattVars, envVars,
                 settingsVars, schedVars>>

\* the record of the finished operation is dropped; the program's own
\* state is as the operation left it
Resume ==
  /\ ~Quiet
  /\ last_op' = LastOp("none", None, <<>>, Ok, 0)
  /\ irq_calls' = <<>>
  /\ UNCHANGED <<bleVars, radioVars, pc, task_calls, skips, lightVars, timeVars, gattVars, envVars, cmdVars>>

Next ==
  \/ Resume
  \/ RestartCheckFlag
  \/ RestartCheckConnected
  \/ RestartClearFlag
  \/ \E m \in MemValues : AdvGate(m)
  \/ \E o \in AdvOutcomes : AdvStop(o)
  \/ \E o \in AdvOutcomes : AdvStart(o)
  \/ AdvClear
  \/ \E f \in FaultPlans(4, TransportErrors) : SensorUpdateTask(f)
  \/ \E h \in ConnHandles, f \in FaultPlans(MaxFaultAt, IrqErrors) : IrqConnect(h, f)
  \/ \E h \in ConnHandles : IrqDisconnect(h)
  \/ \E h \in ConnHandles, v \in RecipeWriteValues, ok \in BOOLEAN, f \in FaultPlans(2, IrqErrors) :
       IrqRecipeWrite(h, v, ok, f)
  \/ \E ok \in BOOLEAN : Shutdown(ok)

Spec == Init /\ [][Next]_vars

\* ------------------------------------------------------------------------
\* is_time_between on its own: the arguments are drawn at the start, the
\* one action calls the function
\* ------------------------------------------------------------------------
\* minutes of the day tried as current, start and end time
TimeMinutes == {0, 30, 59, 60, 61, 600, 700, 1199, 1200, 1300, 1379, 1380, 1439}

HM(m) == <<m \div 60, m % 60>>
Mins(hm) == hm[1] * 60 + hm[2]

InitTime ==
  /\ connected = FALSE
  /\ conn_handle = None
  /\ ble_needs_restart = FALSE
  /\ advertising = FALSE
  /\ links = {}
  /\ pc = "adv_gate"
  /\ task_calls = <<>>
  /\ irq_calls = <<>>
  /\ last_op = LastOp("init", None, <<>>, Ok, 0)
  /\ skips = 0
  /\ current_recipe_tuple = LIGHT_RECIPES["off"]
  /\ current_recipe_name = "off"
  /\ auto_cycle_enabled = BT_AUTO_CYCLE
  /\ tb_args \in {<<HM(c), HM(s), HM(e)>> : c \in TimeMinutes, s \in TimeMinutes, e \in TimeMinutes}
  /\ tb_result = <<>>
  /\ current_on_time_str = LIGHTS_ON_TIME
  /\ current_off_time_str = LIGHTS_OFF_TIME
  /\ current_active_recipe_name = ACTIVE_RECIPE
  /\ settings_file = File(TRUE, SettingsLines(LIGHTS_ON_TIME, LIGHTS_OFF_TIME, ACTIVE_RECIPE))
  /\ auto_cycle_light_should_be_on = FALSE
  /\ rtc = BootClock
  /\ override_window = "none"
  /\ applied_block = <<"boot">>
  /\ gatt_value = [c \in {recipe_handle, custom_handle, control_handle} |-> <<>>]
  /\ pending_writes = <<>>
  /\ last_temp_c = None /\ last_humidity = None /\ last_co2 = None
  /\ last_pressure = None /\ last_lux = None

CallIsTimeBetween ==
  /\ tb_result = <<>>
  /\ tb_result' = <<is_time_between(tb_args[1], tb_args[2], tb_args[3])>>
  /\ UNCHANGED <<bleVars, radioVars, pc, task_calls, irq_calls, last_op, skips, lightVars, tb_args, cmdVars, gattVars, envVars>>

NextTime == CallIsTimeBetween

SpecTime == InitTime /\ [][NextTime]_vars

\* ------------------------------------------------------------------------
\* Commands and schedule: the program from the initial light state on, with
\* the radio advertising after start-up; one peer session at a time
\* ------------------------------------------------------------------------
\* values a client writes to the custom colour characteristic
CustomWriteValues == {<<0, 0, 0, 0>>, <<255, 255, 255, 255>>, <<1, 2, 3, 4>>, <<>>, <<1, 2, 3>>, <<1, 2, 3, 4, 5>>}

\* values a client writes to the control characteristic: opcode, payload
ControlWriteValues ==
  { <<>>, <<0>>, <<1>>, <<2>>, <<12>>, <<20>>, <<99>>, <<0, 7>>,
    <<13>>, <<13, 5>>, <<13, 15>>, <<13, 16>>,
    <<14, 10, 0>>, <<14, 24, 0>>, <<14, 10>>,
    <<15, 8, 0>>, <<15, 100, 0>>, <<15>>,
    <<30, 233, 7, 1, 1, 11, 40, 0, 3>>, <<30, 233, 7, 13, 1, 11, 40, 0, 3>>, <<30, 11, 40>> }

\* minutes of the day the clock is seen at
ClockMinutes == {540, 700, 1300}

InitCmd ==
  /\ connected = FALSE
  /\ conn_handle = None
  /\ ble_needs_restart = FALSE
  /\ advertising = TRUE
  /\ links = {}
  /\ pc = "initial_light"
  /\ task_calls = << RadioCall("gap_advertise", None, "", <<>>), RadioCall("gap_advertise", None, "", <<1>>) >>
  /\ irq_calls = <<>>
  /\ last_op = LastOp("init", None, <<>>, Ok, 0)
  /\ skips = 0
  /\ current_recipe_tuple = LIGHT_RECIPES["off"]
  /\ current_recipe_name = "off"
  /\ auto_cycle_enabled = BT_AUTO_CYCLE
  /\ tb_args = <<<<0, 0>>, <<0, 0>>, <<0, 0>>>>
  /\ tb_result = <<>>
  /\ current_on_time_str = LIGHTS_ON_TIME
  /\ current_off_time_str = LIGHTS_OFF_TIME
  /\ current_active_recipe_name = ACTIVE_RECIPE
  /\ settings_file = File(TRUE, SettingsLines(LIGHTS_ON_TIME, LIGHTS_OFF_TIME, ACTIVE_RECIPE))
  /\ auto_cycle_light_should_be_on = FALSE
  /\ rtc = BootClock
  /\ override_window = "none"
  /\ applied_block = <<"boot">>
  /\ gatt_value = [c \in {recipe_handle, custom_handle, control_handle} |-> <<>>]
  /\ pending_writes = <<>>
  /\ last_temp_c = None /\ last_humidity = None /\ last_co2 = None
  /\ last_pressure = None /\ last_lux = None

NextCmd ==
  \/ Resume
  \/ \E ok \in BOOLEAN : InitialLight(ok)
  \/ \E ok \in BOOLEAN, f \in FaultPlans(1, {OSError(128)}) : AutoCycleTick(ok, f)
  \/ \E m \in ClockMinutes : ClockAdvance(m)
  \/ WindowExpires
  \/ \E h \in ConnHandles, f \in FaultPlans(1, {OSError(128)}) : IrqConnect(h, f)
  \/ \E h \in ConnHandles : IrqDisconnect(h)
  \/ \E h \in ConnHandles, v \in RecipeWriteValues, ok \in BOOLEAN, f \in FaultPlans(1, {OSError(128), OSError(12)}) :
       IrqRecipeWrite(h, v, ok, f)
  \/ \E h \in ConnHandles, v \in CustomWriteValues, ok \in BOOLEAN, f \in FaultPlans(1, {OSError(128), OSError(12)}) :
       IrqCustomWrite(h, v, ok, f)
  \/ \E h \in ConnHandles, v \in ControlWriteValues, ok \in BOOLEAN,
        wr \in {WriteOk, [opened |-> FALSE, lines |-> 0, ok |-> FALSE]},
        f \in FaultPlans(1, {OSError(128)}) :
       IrqControlWrite(h, v, ok, wr, f)

SpecCmd == InitCmd /\ [][NextCmd]_vars

\* ------------------------------------------------------------------------
\* save_settings and load_settings on their own: the file is drawn at the
\* start, load_settings runs once (main, line 1014), then save_settings is
\* called with arguments of every kind
\* ------------------------------------------------------------------------
FileSamples ==
  { \* no file
    File(FALSE, <<>>),
    \* an empty file
    File(TRUE, <<>>),
    \* what save_settings writes for the defaults
    File(TRUE, SettingsLines(LIGHTS_ON_TIME, LIGHTS_OFF_TIME, ACTIVE_RECIPE)),
    \* other valid values
    File(TRUE, << <<"O", "N", "_", "T", "I", "M", "E", "=", "1", "0", ":", "0", "0">>,
                 <<"O", "F", "F", "_", "T", "I", "M", "E", "=", "2", "1", ":", "4", "0">>,
                 <<"A", "C", "T", "I", "V", "E", "_", "R", "E", "C", "I", "P", "E", "=", "b", "l", "o", "o", "m">> >>),
    \* comment, blank line, padded lower-case key, a line without "=", no OFF_TIME
    File(TRUE, << <<"#", " ", "s", "e", "t", "t", "i", "n", "g", "s">>,
                 <<>>,
                 <<" ", "o", "n", "_", "t", "i", "m", "e", " ", "=", " ", "0", "6", ":", "3", "0", " ">>,
                 <<"j", "u", "n", "k", " ", "l", "i", "n", "e">>,
                 <<"A", "C", "T", "I", "V", "E", "_", "R", "E", "C", "I", "P", "E", "=", "b", "l", "o", "o", "m">> >>),
    \* values out of range, a short time, the recipe off
    File(TRUE, << <<"O", "N", "_", "T", "I", "M", "E", "=", "2", "4", ":", "0", "0">>,
                 <<"O", "F", "F", "_", "T", "I", "M", "E", "=", "7", ":", "3", "0">>,
                 <<"A", "C", "T", "I", "V", "E", "_", "R", "E", "C", "I", "P", "E", "=", "o", "f", "f">> >>),
    \* no digits, minute 60, an unknown recipe
    File(TRUE, << <<"O", "N", "_", "T", "I", "M", "E", "=", "1", "0", ":", "5", "x">>,
                 <<"O", "F", "F", "_", "T", "I", "M", "E", "=", "1", "2", ":", "6", "0">>,
                 <<"A", "C", "T", "I", "V", "E", "_", "R", "E", "C", "I", "P", "E", "=", "d", "i", "s", "c", "o">> >>),
    \* a key set twice, a value with "=", a padded value
    File(TRUE, << <<"O", "N", "_", "T", "I", "M", "E", "=", "0", "8", ":", "0", "0">>,
                 <<"O", "N", "_", "T", "I", "M", "E", "=", "0", "9", ":", "1", "5">>,
                 <<"O", "F", "F", "_", "T", "I", "M", "E", "=", "2", "0", ":", "0", "0", "=", "1">>,
                 <<"A", "C", "T", "I", "V", "E", "_", "R", "E", "C", "I", "P", "E", "=", " ", "w", "a", "r", "m">> >>),
    \* two colons, a signed hour, a recipe in capitals
    File(TRUE, << <<"O", "N", "_", "T", "I", "M", "E", "=", "1", ":", ":", "3", "0">>,
                 <<"O", "F", "F", "_", "T", "I", "M", "E", "=", "+", "1", ":", "3", "0">>,
                 <<"A", "C", "T", "I", "V", "E", "_", "R", "E", "C", "I", "P", "E", "=", "V", "E", "G", "_", "G", "R", "O", "W", "T", "H">> >>),
    \* a write that stopped in the second line
    File(TRUE, << <<"O", "N", "_", "T", "I", "M", "E", "=", "1", "0", ":", "0", "0">>,
                 <<"O", "F", "F", "_", "T", "I">> >>),
    \* an empty value, an empty key, a negative hour
    File(TRUE, << <<"O", "N", "_", "T", "I", "M", "E", "=">>,
                 <<"=", "1", "0", ":", "0", "0">>,
                 <<"O", "F", "F", "_", "T", "I", "M", "E", "=", "-", "1", ":", "3", "0">> >>) }


InitSettings ==
  /\ connected = FALSE
  /\ conn_handle = None
  /\ ble_needs_restart = FALSE
  /\ advertising = FALSE
  /\ links = {}
  /\ pc = "load_settings"
  /\ task_calls = <<>>
  /\ irq_calls = <<>>
  /\ last_op = LastOp("init", None, <<>>, Ok, 0)
  /\ skips = 0
  /\ current_recipe_tuple = LIGHT_RECIPES["off"]
  /\ current_recipe_name = "off"
  /\ auto_cycle_enabled = BT_AUTO_CYCLE
  /\ tb_args = <<<<0, 0>>, <<0, 0>>, <<0, 0>>>>
  /\ tb_result = <<>>
  /\ current_on_time_str = LIGHTS_ON_TIME
  /\ current_off_time_str = LIGHTS_OFF_TIME
  /\ current_active_recipe_name = ACTIVE_RECIPE
  /\ settings_file \in FileSamples
  /\ auto_cycle_light_should_be_on = FALSE
  /\ rtc = BootClock
  /\ override_window = "none"
  /\ applied_block = <<"boot">>
  /\ gatt_value = [c \in {recipe_handle, custom_handle, control_handle} |-> <<>>]
  /\ pending_writes = <<>>
  /\ last_temp_c = None /\ last_humidity = None /\ last_co2 = None
  /\ last_pressure = None /\ last_lux = None

\* main, line 1014
LoadSettings(rd, wr) ==
  /\ Quiet
  /\ pc = "load_settings"
  /\ \E r \in {load_settings(Mem, settings_file, CurSt, rd, wr)} :
        /\ current_on_time_str' = r.mem.on
        /\ current_off_time_str' = r.mem.off
        /\ current_active_recipe_name' = r.mem.recipe
        /\ settings_file' = r.file
        /\ last_op' = LastOp("load_settings", None, <<rd, wr.ok, r.raised>>, Ok, 0)
  /\ pc' = "settings"
  /\ UNCHANGED <<bleVars, radioVars, task_calls, irq_calls, skips, lightVars, timeVars, gattVars, envVars,
                 schedVars, override_window>>

\* a call of save_settings while no peer is connected
SaveSettings(on_time_str, off_time_str, active_recipe_name, wr) ==
  /\ Quiet
  /\ pc = "settings"
  /\ \E r \in {save_settings(Mem, settings_file, CurSt, on_time_str, off_time_str,
                              active_recipe_name, wr, NoFault)} :
        /\ current_on_time_str' = r.mem.on
        /\ current_off_time_str' = r.mem.off
        /\ current_active_recipe_name' = r.mem.recipe
        /\ settings_file' = r.file
        /\ last_op' = LastOp("save_settings", None,
                             <<on_time_str, off_time_str, active_recipe_name, wr.ok, r.ret, r.raised>>,
                             Ok, 0)
  /\ UNCHANGED <<bleVars, radioVars, pc, task_calls, irq_calls, skips, lightVars, timeVars, gattVars, envVars,
                 schedVars, override_window>>

NextSettings ==
  \/ Resume
  \* os.stat, open and the read loop succeed, or raise an OSError other
  \* than ENOENT, or another exception
  \/ \E rd \in {"ok", "OSError", "Exception"}, wr \in WriteOutcomes : LoadSettings(rd, wr)
  \/ \E on \in {<<"1", "0", ":", "0", "0">>, <<"2", "4", ":", "0", "0">>},
        off \in {<<"2", "1", ":", "4", "0">>, <<"7", ":", "3", "0">>},
        n \in {"bloom", "off", "disco"}, wr \in WriteOutcomes :
       SaveSettings(on, off, n, wr)

SpecSettings == InitSettings /\ [][NextSettings]_vars

\* ------------------------------------------------------------------------
\* LightController step by step: every np.fill / np.write of a fade
\* ------------------------------------------------------------------------
FADE_STEPS_PER_SECOND == 25

\* one channel of the colour of a step (441-444): int(s + (t - s) / num_steps
\* * step + 0.5), clamped; s and t are in 0..255, so the value is positive
\* and int() is the floor
StepChannel(s, t, num_steps, step) ==
  Clamp((2 * num_steps * s + 2 * (t - s) * step + num_steps) \div (2 * num_steps))

set_all_np_always(light, rgbw, np_ok) ==
  LET target_tuple == ClampTuple(rgbw)
  IN << set_all(light, rgbw, np_ok),
        << RadioCall(IF np_ok THEN "np_write" ELSE "np_write_failed", None, "", target_tuple) >> >>

\* set_all with the strip writes it attempts: <<light, writes>>
set_all_np(light, rgbw, np_ok) ==
  LET target_tuple == ClampTuple(rgbw)
  IN << set_all(light, rgbw, np_ok),
        IF light.tuple = target_tuple THEN <<>>
        ELSE << RadioCall(IF np_ok THEN "np_write" ELSE "np_write_failed", None, "", target_tuple) >> >>

fade_to_np_no_commit(light, target_rgbw_tuple, duration_cs, np_fails, wdt) ==
  LET target_tuple == IF Len(target_rgbw_tuple) # 4 THEN LIGHT_RECIPES["off"]
                      ELSE ClampTuple(target_rgbw_tuple)
      start_tuple == light.tuple
      scaled == (duration_cs * FADE_STEPS_PER_SECOND) \div 100
      num_steps == IF scaled < 1 THEN 1 ELSE scaled
      step_write(i) ==
        RadioCall(IF i \in np_fails THEN "np_write_failed" ELSE "np_write", None, "",
                  [c \in 1..4 |-> StepChannel(start_tuple[c], target_tuple[c], num_steps, i - 1)])
  IN IF start_tuple = target_tuple \/ duration_cs < 5
     THEN set_all_np(light, target_tuple, 1 \notin np_fails) \o << <<>> >>
     ELSE << light, [i \in 1..(num_steps + 1) |-> step_write(i)], <<>> >>

\* fade_to with the strip writes it attempts and with everything its loop
\* does, in order: <<light, writes, events>>. The duration is given in
\* hundredths of a second, np_fails are the numbers of the writes that
\* raise, wdt tells whether a watchdog exists (line 339-347). An event that
\* is no write carries the number of its step: the feed of the watchdog
\* (453), the sleep before the next step (455), gc.collect (456); the
\* closing set_all (458) writes unless the cached colour is the target and
\* feeds the watchdog (389, 406)
fade_to_np(light, target_rgbw_tuple, duration_cs, np_fails, wdt) ==
  LET target_tuple == IF Len(target_rgbw_tuple) # 4 THEN LIGHT_RECIPES["off"]
                      ELSE ClampTuple(target_rgbw_tuple)
      start_tuple == light.tuple
      scaled == (duration_cs * FADE_STEPS_PER_SECOND) \div 100
      num_steps == IF scaled < 1 THEN 1 ELSE scaled
      step_write(i) ==
        RadioCall(IF i \in np_fails THEN "np_write_failed" ELSE "np_write", None, "",
                  [c \in 1..4 |-> StepChannel(start_tuple[c], target_tuple[c], num_steps, i - 1)])
      event(what, step) == RadioCall(what, None, "", <<step>>)
      feed(step) == IF wdt THEN <<event("wdt_feed", step)>> ELSE <<>>
      step_events(step) ==
        <<step_write(step + 1)>> \o feed(step)
          \o (IF step < num_steps THEN <<event("sleep_ms", step)>> ELSE <<>>)
          \o (IF step > 0 /\ step % 50 = 0 THEN <<event("gc_collect", step)>> ELSE <<>>)
      \* the events of steps lo..hi in order (the range is halved to keep
      \* the evaluation shallow)
      RECURSIVE steps(_, _)
      steps(lo, hi) == IF lo > hi THEN <<>>
                       ELSE IF lo = hi THEN step_events(lo)
                       ELSE steps(lo, (lo + hi) \div 2) \o steps((lo + hi) \div 2 + 1, hi)
      closing(final) == << final[1], [i \in 1..(num_steps + 1) |-> step_write(i)] \o final[2],
                           steps(0, num_steps) \o final[2] \o feed(num_steps + 1) >>
      at_once(final) == << final[1], final[2], final[2] \o feed(0) >>
  IN IF start_tuple = target_tuple \/ duration_cs < 5
     THEN at_once(set_all_np(light, target_tuple, 1 \notin np_fails))
     ELSE closing(set_all_np(light, target_tuple, (num_steps + 2) \notin np_fails))

InitFade ==
  /\ connected = FALSE
  /\ conn_handle = None
  /\ ble_needs_restart = FALSE
  /\ advertising = FALSE
  /\ links = {}
  /\ pc = "light"
  /\ task_calls = <<>>
  /\ irq_calls = <<>>
  /\ last_op = LastOp("init", None, <<>>, Ok, 0)
  /\ skips = 0
  /\ current_recipe_tuple = LIGHT_RECIPES["off"]
  /\ current_recipe_name = "off"
  /\ auto_cycle_enabled = BT_AUTO_CYCLE
  /\ tb_args = <<<<0, 0>>, <<0, 0>>, <<0, 0>>>>
  /\ tb_result = <<>>
  /\ current_on_time_str = LIGHTS_ON_TIME
  /\ current_off_time_str = LIGHTS_OFF_TIME
  /\ current_active_recipe_name = ACTIVE_RECIPE
  /\ settings_file = File(TRUE, SettingsLines(LIGHTS_ON_TIME, LIGHTS_OFF_TIME, ACTIVE_RECIPE))
  /\ auto_cycle_light_should_be_on = FALSE
  /\ rtc = BootClock
  /\ override_window = "none"
  /\ applied_block = <<"boot">>
  /\ gatt_value = [c \in {recipe_handle, custom_handle, control_handle} |-> <<>>]
  /\ pending_writes = <<>>
  /\ last_temp_c = None /\ last_humidity = None /\ last_co2 = None
  /\ last_pressure = None /\ last_lux = None

\* a call of fade_to; val records the arguments
FadeTo(target_rgbw_tuple, duration_cs, np_fails) ==
  /\ Quiet
  /\ pc = "light"
  /\ \E r \in {fade_to_np(CurLight, target_rgbw_tuple, duration_cs, np_fails, FALSE)} :
        /\ current_recipe_tuple' = r[1].tuple
        /\ current_recipe_name' = r[1].name
        /\ irq_calls' = r[2]
        /\ last_op' = LastOp("fade_to", None, <<target_rgbw_tuple, duration_cs, np_fails>>, Ok, 0)
  /\ UNCHANGED <<bleVars, radioVars, pc, task_calls, skips, auto_cycle_enabled, timeVars, gattVars, envVars, cmdVars>>

FadeToWatched_unfed(target_rgbw_tuple, duration_cs, np_fails, wdt) ==
  /\ Quiet
  /\ pc = "light"
  /\ \E r \in {fade_to_np(CurLight, target_rgbw_tuple, duration_cs, np_fails, FALSE)} :
        /\ current_recipe_tuple' = r[1].tuple
        /\ current_recipe_name' = r[1].name
        /\ irq_calls' = r[3]
        /\ last_op' = LastOp("fade_to_watched", None, <<target_rgbw_tuple, duration_cs, np_fails, wdt>>, Ok, 0)
  /\ UNCHANGED <<bleVars, radioVars, pc, task_calls, skips, auto_cycle_enabled, timeVars, gattVars, envVars, cmdVars>>

\* a call of fade_to with everything its loop does in the log, with a
\* watchdog (WATCHDOG_TIMEOUT > 0 and machine.WDT created) or without one
FadeToWatched(target_rgbw_tuple, duration_cs, np_fails, wdt) ==
  /\ Quiet
  /\ pc = "light"
  /\ \E r \in {fade_to_np(CurLight, target_rgbw_tuple, duration_cs, np_fails, wdt)} :
        /\ current_recipe_tuple' = r[1].tuple
        /\ current_recipe_name' = r[1].name
        /\ irq_calls' = r[3]
        /\ last_op' = LastOp("fade_to_watched", None, <<target_rgbw_tuple, duration_cs, np_fails, wdt>>, Ok, 0)
  /\ UNCHANGED <<bleVars, radioVars, pc, task_calls, skips, auto_cycle_enabled, timeVars, gattVars, envVars, cmdVars>>

\* a call of set_all
SetAll(rgbw, np_ok) ==
  /\ Quiet
  /\ pc = "light"
  /\ \E r \in {set_all_np(CurLight, rgbw, np_ok)} :
        /\ current_recipe_tuple' = r[1].tuple
        /\ current_recipe_name' = r[1].name
        /\ irq_calls' = r[2]
        /\ last_op' = WithNp(LastOp("set_all", None, <<rgbw>>, Ok, 0), np_ok)
  /\ UNCHANGED <<bleVars, radioVars, pc, task_calls, skips, auto_cycle_enabled, timeVars, gattVars, envVars, cmdVars>>

NextFade ==
  \/ Resume
  \/ \E t \in {<<0, 0, 0, 0>>, <<50, 255, 70, 200>>, <<1, 2, 3, 4>>, <<255, 255, 255, 255>>,
               <<300, 0 - 10, 255, 256>>, <<7, 128, 0, 99>>, <<1, 2, 3>>},
        d \in {0, 4, 5, 12, 20},
        f \in {{}, {1}, {2}, {3}, {5}, {7}, 1..6, 1..7} :
       FadeTo(t, d, f)
  \/ \E t \in {<<0, 0, 0, 0>>, <<50, 255, 70, 200>>, <<1, 2, 3, 4>>, <<300, 0 - 10, 255, 256>>},
        ok \in BOOLEAN :
       SetAll(t, ok)
  \/ \E t \in {<<0, 0, 0, 0>>, <<50, 255, 70, 200>>, <<1, 2, 3, 4>>},
        d \in {4, 8, 196, 200, 400, 404},
        f \in {{}, {3}},
        wdt \in BOOLEAN :
       FadeToWatched(t, d, f, wdt)

SpecFade == InitFade /\ [][NextFade]_vars

\* ------------------------------------------------------------------------
\* Write events that wait for _irq_handler: the event carries the
\* connection and the characteristic, the handler reads the value
\* ------------------------------------------------------------------------
\* _irq_handler, event _IRQ_GATTS_WRITE (760-765): the world after it
_irq_gatts_write(w, conn, value_handle, np_ok, wr, fault, values) ==
  LET of_light(r) == [w EXCEPT !.st = r[1], !.light = r[2], !.auto = r[3]]
  IN IF conn # w.st.conn_handle THEN w
     ELSE IF value_handle = recipe_handle
     THEN of_light(HandleRecipeWrite(w.st, w.light, w.auto, values[recipe_handle], np_ok, fault))
     ELSE IF value_handle = custom_handle
     THEN of_light(HandleCustomWrite(w.st, w.light, w.auto, values[custom_handle], np_ok, fault))
     ELSE IF value_handle = control_handle
     THEN HandleControlWrite(w, values[control_handle], np_ok, wr, fault)
     ELSE w

InitQueue ==
  /\ connected = TRUE
  /\ conn_handle = 1
  /\ ble_needs_restart = FALSE
  /\ advertising = FALSE
  /\ links = {1}
  /\ pc = "idle"
  /\ task_calls = <<>>
  /\ irq_calls = <<>>
  /\ last_op = LastOp("init", None, <<>>, Ok, 0)
  /\ skips = 0
  /\ current_recipe_tuple = LIGHT_RECIPES["off"]
  /\ current_recipe_name = "off"
  /\ auto_cycle_enabled = BT_AUTO_CYCLE
  /\ tb_args = <<<<0, 0>>, <<0, 0>>, <<0, 0>>>>
  /\ tb_result = <<>>
  /\ current_on_time_str = LIGHTS_ON_TIME
  /\ current_off_time_str = LIGHTS_OFF_TIME
  /\ current_active_recipe_name = ACTIVE_RECIPE
  /\ settings_file = File(TRUE, SettingsLines(LIGHTS_ON_TIME, LIGHTS_OFF_TIME, ACTIVE_RECIPE))
  /\ auto_cycle_light_should_be_on = FALSE
  /\ rtc = BootClock
  /\ override_window = "none"
  /\ applied_block = <<"boot">>
  /\ gatt_value = [c \in {recipe_handle, custom_handle, control_handle} |-> <<>>]
  /\ pending_writes = <<>>
  /\ last_temp_c = None /\ last_humidity = None /\ last_co2 = None
  /\ last_pressure = None /\ last_lux = None

\* the radio takes a write of val to a characteristic from the peer on
\* link h: the characteristic holds val from now on and a write event waits
GattsWriteArrives(h, value_handle, val) ==
  /\ Quiet
  /\ h \in links
  /\ Len(pending_writes) < MaxPending
  /\ gatt_value' = [gatt_value EXCEPT ![value_handle] = val]
  /\ pending_writes' = Append(pending_writes, [conn |-> h, handle |-> value_handle, value |-> val])
  /\ UNCHANGED <<bleVars, radioVars, pc, task_calls, irq_calls, last_op, skips, lightVars, timeVars, envVars, cmdVars>>

\* the oldest waiting write event is handed to _irq_handler; val records
\* the value the handler read
IrqGattsWrite(np_ok, fault) ==
  /\ Quiet
  /\ pending_writes # <<>>
  /\ \E e \in {Head(pending_writes)} :
     \E w \in {_irq_gatts_write(World(CurSt, CurLight, auto_cycle_enabled, Mem, settings_file, rtc),
                                e.conn, e.handle, np_ok, WriteOk, fault, gatt_value)} :
        /\ connected' = w.st.connected
        /\ conn_handle' = w.st.conn_handle
        /\ ble_needs_restart' = w.st.flag
        /\ irq_calls' = w.st.calls
        /\ current_recipe_tuple' = w.light.tuple
        /\ current_recipe_name' = w.light.name
        /\ auto_cycle_enabled' = w.auto
        /\ current_on_time_str' = w.mem.on
        /\ current_off_time_str' = w.mem.off
        /\ current_active_recipe_name' = w.mem.recipe
        /\ settings_file' = w.file
        /\ rtc' = w.rtc
        /\ last_op' = WithNp(LastOp("irq_gatts_write", e.conn, gatt_value[e.handle],
                                    HitErr(fault, w.st.n), HitAt(fault, w.st.n)),
                             NpTook(w.st.calls, np_ok))
  /\ pending_writes' = Tail(pending_writes)
  /\ UNCHANGED <<radioVars, pc, task_calls, skips, timeVars, envVars, gatt_value,
                 auto_cycle_light_should_be_on, applied_block, override_window>>

NextQueue ==
  \/ Resume
  \/ \E h \in ConnHandles, v \in {<<4>>, <<5>>, <<15>>} : GattsWriteArrives(h, recipe_handle, v)
  \/ \E h \in ConnHandles, v \in {<<1, 2, 3, 4>>, <<255, 255, 255, 255>>} :
       GattsWriteArrives(h, custom_handle, v)
  \/ \E h \in ConnHandles, v \in {<<0>>, <<1>>, <<2>>, <<13, 5>>} : GattsWriteArrives(h, control_handle, v)
  \/ \E ok \in BOOLEAN, f \in FaultPlans(1, {OSError(128)}) : IrqGattsWrite(ok, f)

SpecQueue == InitQueue /\ [][NextQueue]_vars

\* ------------------------------------------------------------------------
\* The environment readings and what is published for them: the main loop
\* reads the sensors (1126-1136) and, while a client is connected, updates
\* the combined record and the illuminance characteristic (1149-1154)
\* ------------------------------------------------------------------------

\* main loop, step 2 (1126-1136): every global takes what read_all returned
\* for its key (unified_sensor.py 424-474: a dictionary with all five keys,
\* each None when its sensor is disabled or its read failed); an exception
\* raised by the read leaves them all alone
SensorRead(sensor_data, raised) ==
  /\ Quiet
  /\ pc = "idle"
  /\ last_temp_c' = IF raised THEN last_temp_c ELSE sensor_data.temperature
  /\ last_humidity' = IF raised THEN last_humidity ELSE sensor_data.humidity
  /\ last_co2' = IF raised THEN last_co2 ELSE sensor_data.co2
  /\ last_pressure' = IF raised THEN last_pressure ELSE sensor_data.pressure
  /\ last_lux' = IF raised THEN last_lux ELSE sensor_data.lux
  /\ last_op' = LastOp("sensor_read", None, <<sensor_data, raised>>, Ok, 0)
  /\ irq_calls' = <<>>
  /\ UNCHANGED <<bleVars, radioVars, pc, task_calls, skips, lightVars, timeVars, gattVars, cmdVars>>

NextEnv ==
  \/ Resume
  \/ \E d \in [temperature : {None, 0, 2146}, humidity : {None, 0, 4550},
              co2 : {None, 0, 800}, pressure : {None, 0, 101325},
              lux : {None, 0, 1, 1234}],
        raised \in BOOLEAN : SensorRead(d, raised)
  \/ \E f \in FaultPlans(4, {OSError(128)}) : SensorUpdateTask(f)

SpecEnv == InitQueue /\ [][NextEnv]_vars

\* ------------------------------------------------------------------------
\* The clock and status commands: opcode 30 with payloads on and beyond the
\* edge of every field's range and of every length class, opcode 12 after
\* commands that change the light and the settings, a failure of any one
\* radio call of a handler, and the clock going on between the commands
\* ------------------------------------------------------------------------
NextClock ==
  \/ Resume
  \/ \E m \in ClockMinutes : ClockAdvance(m)
  \/ \E h \in ConnHandles,
        v \in {<<30, 233, 7, 6, 15, 11, 40, 30, w>> : w \in 0..7}
                \cup {<<30, y[1], y[2], 6, 15, 11, 40, 30, 3>> :
                        y \in {<<230, 7>>, <<231, 7>>, <<52, 8>>, <<53, 8>>}}
                \cup {<<30, 233, 7, mo, 15, 11, 40, 30, 3>> : mo \in {0, 1, 12, 13}}
                \cup {<<30, 233, 7, 6, d, 11, 40, 30, 3>> : d \in {0, 1, 31, 32}}
                \cup {<<30, 233, 7, 6, 15, hr, 40, 30, 3>> : hr \in {0, 23, 24}}
                \cup {<<30, 233, 7, 6, 15, 11, mn, 30, 3>> : mn \in {0, 59, 60}}
                \cup {<<30, 233, 7, 6, 15, 11, 40, sc, 3>> : sc \in {0, 59, 60}}
                \cup {<<30>>, <<30, 233, 7, 6, 15, 11, 40, 30>>,
                      <<30, 233, 7, 6, 15, 11, 40, 30, 3, 0>>, <<12>>, <<1>>, <<2>>, <<13, 5>>},
        f \in FaultPlans(7, {OSError(128), OSError(12)}) :
       IrqControlWrite(h, v, TRUE, WriteOk, f)

SpecClock == InitQueue /\ [][NextClock]_vars

\* ------------------------------------------------------------------------
\* The stored schedule: load_settings at start-up over every kind of file,
\* then the radio is brought up and a client sends the three commands that
\* change the schedule, with payload bytes of every kind
\* ------------------------------------------------------------------------
\* main, 1047-1057: BluetoothController is constructed after load_settings;
\* its __init__ ends by advertising (583)
StartBluetooth ==
  /\ Quiet
  /\ pc = "settings"
  /\ pc' = "initial_light"
  /\ advertising' = TRUE
  /\ task_calls' = << RadioCall("gap_advertise", None, "", <<>>), RadioCall("gap_advertise", None, "", <<1>>) >>
  /\ irq_calls' = <<>>
  /\ last_op' = LastOp("start_bluetooth", None, <<>>, Ok, 0)
  /\ UNCHANGED <<bleVars, links, skips, lightVars, timeVars, gattVars, envVars, cmdVars>>

NextSched ==
  \/ Resume
  \/ \E rd \in {"ok", "OSError", "Exception"}, wr \in {WriteOk, [opened |-> FALSE, lines |-> 0, ok |-> FALSE]} :
       LoadSettings(rd, wr)
  \/ StartBluetooth
  \/ \E h \in ConnHandles : IrqConnect(h, NoFault)
  \/ \E h \in ConnHandles : IrqDisconnect(h)
  \/ \E h \in ConnHandles,
        v \in {<<13, i>> : i \in {0, 5, 14, 15, 16, 255}}
                \cup {<<o, hh, mm>> : o \in {14, 15}, hh \in {0, 23, 24, 100, 255}, mm \in {0, 59, 60, 255}}
                \cup {<<13>>, <<13, 5, 0>>, <<14>>, <<14, 10>>, <<14, 10, 0, 0>>, <<15>>, <<15, 8>>, <<15, 8, 0, 0>>},
        wr \in {WriteOk, [opened |-> FALSE, lines |-> 0, ok |-> FALSE]},
        f \in FaultPlans(1, {OSError(128)}) :
       IrqControlWrite(h, v, TRUE, wr, f)

SpecSched == InitSettings /\ [][NextSched]_vars

\* C1: for every current, start and end minute of the day is_time_between
\* returns TRUE exactly when start <= end and start <= now < end, or
\* start > end and (now >= start or now < end); the interval 1380..60
\* contains 1439 and 30 and does not contain 700.
C1_IntervalTest ==
  tb_result # <<>> =>
    LET now == Mins(tb_args[1])
        start == Mins(tb_args[2])
        end == Mins(tb_args[3])
    IN /\ tb_result[1] <=>
            \/ (start <= end /\ start <= now /\ now < end)
            \/ (start > end /\ (now >= start \/ now < end))
       /\ (start = 1380 /\ end = 60 /\ now \in {1439, 30}) => tb_result[1]
       /\ (start = 1380 /\ end = 60 /\ now = 700) => ~tb_result[1]

C1_Witness ==
  /\ tb_args = <<HM(1439), HM(1380), HM(60)>>
  /\ tb_result = <<TRUE>>

\* ------------------------------------------------------------------------
\* Connection state as the glossary names it
\* ------------------------------------------------------------------------
ConnState ==
  IF connected THEN "Connected"
  ELSE IF advertising THEN "Advertising"
  ELSE "Disconnected"

\* the steps of the advertising task (restart check and _start_advertising)
TaskOps == {"restart_check_flag", "restart_check_connected", "restart_clear_flag",
            "adv_skipped", "adv_gate_passed", "adv_stop", "adv_start", "adv_started"}

\* the radio call c without the connection it went to
Tag(c) == <<c.call, c.handle, IF c.handle = control_handle THEN SubSeq(c.data, 1, 1) ELSE <<>>>>
Tags(calls) == [i \in 1..Len(calls) |-> Tag(calls[i])]

RECURSIVE IsSubSeq(_, _)
IsSubSeq(a, b) ==
  IF a = <<>> THEN TRUE
  ELSE IF b = <<>> THEN FALSE
  ELSE IF Head(a) = Head(b) THEN IsSubSeq(Tail(a), Tail(b))
  ELSE IsSubSeq(a, Tail(b))

RECURSIVE Notifies(_)
Notifies(calls) ==
  IF calls = <<>> THEN <<>>
  ELSE IF Head(calls).call = "gatts_notify"
       THEN <<Head(calls)>> \o Notifies(Tail(calls))
       ELSE Notifies(Tail(calls))

\* C2: when _start_advertising finds free memory below MIN_MEM_ADV it
\* returns at once: no radio call is made (the task's call log and the
\* radio's advertising state are as before), and the advertising-needed
\* flag is set afterwards whether it was set or clear before; with memory
\* at or above the floor the attempt is not skipped.
C2_MemoryGate ==
  [][(pc = "adv_gate" /\ last_op'.op \in {"adv_skipped", "adv_gate_passed"}) =>
       IF last_op'.val[1] < 15000
       THEN /\ last_op'.op = "adv_skipped"
            /\ ble_needs_restart'
            /\ task_calls' = task_calls
            /\ advertising' = advertising
            /\ links' = links
            /\ pc' = "idle"
       ELSE /\ last_op'.op = "adv_gate_passed"
            /\ pc' = "adv_stop"]_vars

C2_Witness ==
  /\ last_op.op = "adv_skipped"
  /\ last_op.val = <<MIN_MEM_ADV - 1, 0>>
  /\ ble_needs_restart
  /\ task_calls = <<>>

\* C3: a memory-gated skip keeps the advertising-needed flag set, and the
\* flag stays set while the device is neither connected nor advertising
\* until the task retries; a retry that finds enough memory goes on to the
\* radio calls, and when the radio accepts them advertising is on and the
\* flag is cleared when _start_advertising returns.
C3_RetryAfterSkip ==
  [][/\ (last_op'.op = "adv_skipped" => ble_needs_restart')
     /\ (skips' > 0 /\ ~connected' /\ ~advertising'
           /\ pc' \in {"idle", "restart_conn", "restart_clear"} => ble_needs_restart')
     /\ (pc = "adv_gate" /\ last_op'.op = "adv_gate_passed" => pc' = "adv_stop")
     /\ (pc = "adv_stop" /\ last_op'.op = "adv_stop" /\ last_op'.err = Ok =>
           pc' = "adv_start")
     /\ (pc = "adv_start" /\ last_op'.op = "adv_start" /\ last_op'.err = Ok =>
           /\ advertising'
           /\ pc' = "adv_clear"
           /\ task_calls'[Len(task_calls')] = RadioCall("gap_advertise", None, "", <<1>>))
     /\ (pc = "adv_clear" /\ last_op'.op = "adv_started" =>
           ~ble_needs_restart' /\ pc' = "idle")]_vars

C3_Witness ==
  /\ last_op.op = "adv_started"
  /\ last_op.val = <<1>>
  /\ advertising
  /\ ~ble_needs_restart
  /\ skips = 0

C5_Transitions ==
  [][\/ ConnState' = ConnState
     \/ <<ConnState, ConnState'>> \in {<<"Disconnected", "Advertising">>,
                                       <<"Advertising", "Connected">>,
                                       <<"Connected", "Disconnected">>,
                                       <<"Advertising", "Disconnected">>}]_vars

\* C6 as stated: a connect event records the handle, sets Connected, clears
\* the advertising-needed flag and then notifies the peer of settings,
\* environment snapshot, memory, time and light state, in that order.
C6_LightStateNotified ==
  (last_op.op = "connect" /\ last_op.err = Ok) =>
    /\ connected /\ conn_handle = last_op.h /\ ~ble_needs_restart
    /\ LET ntf == Notifies(irq_calls)
       IN /\ Len(ntf) >= 6
          /\ SubSeq(Tags(ntf), 1, 5) =
               << <<"gatts_notify", control_handle, <<NTF_SETTINGS_UPDATE>>>>,
                  <<"gatts_notify", combined_sensor_handle, <<>>>>,
                  <<"gatts_notify", illuminance_handle, <<>>>>,
                  <<"gatts_notify", control_handle, <<NTF_MEMORY_UPDATE>>>>,
                  <<"gatts_notify", control_handle, <<NTF_TIME_UPDATE>>>> >>
          /\ \A i \in 6..Len(ntf) : ntf[i].handle \in {recipe_handle, custom_handle}

\* what the connect handler hands to the radio when nothing fails
C6_ConnectCalls ==
  << <<"gap_advertise", "", <<>>>>,
     <<"gatts_notify", control_handle, <<113>>>>,
     <<"gatts_write", combined_sensor_handle, <<>>>>,
     <<"gatts_notify", combined_sensor_handle, <<>>>>,
     <<"gatts_write", illuminance_handle, <<>>>>,
     <<"gatts_notify", illuminance_handle, <<>>>>,
     <<"gatts_notify", control_handle, <<121>>>>,
     <<"gatts_notify", control_handle, <<131>>>>,
     <<"gatts_write", recipe_handle, <<>>>>,
     <<"gatts_write", custom_handle, <<>>>> >>

\* C6: a connect event records the handle, sets Connected and clears the
\* advertising-needed flag, then stops advertising and, unasked, notifies
\* the peer of settings, environment snapshot (combined record,
\* illuminance), memory and time in that order, and last writes the light
\* state (recipe index, colour) to the recipe and custom characteristics
\* without notifying it.  Every notification goes to the recorded handle; a
\* failed call only removes calls from this sequence.
C6_ConnectPush ==
  last_op.op = "connect" =>
    /\ IsSubSeq(Tags(irq_calls), C6_ConnectCalls)
    /\ \A i \in 1..Len(irq_calls) :
         /\ irq_calls[i].call = "gatts_notify" => irq_calls[i].conn = last_op.h
         /\ irq_calls[i].handle \in {recipe_handle, custom_handle} =>
              irq_calls[i].call = "gatts_write"
    /\ last_op.err = Ok =>
         /\ connected /\ conn_handle = last_op.h /\ ~ble_needs_restart
         /\ Tags(irq_calls) = C6_ConnectCalls
         /\ irq_calls[9].data = <<KeyIndex(current_recipe_name)>>
         /\ irq_calls[10].data = current_recipe_tuple

C6_Witness ==
  /\ last_op.op = "connect"
  /\ last_op.err = Ok
  /\ connected
  /\ conn_handle = last_op.h
  /\ Len(irq_calls) = 10

C8_Before(op, h) ==
  IF op = "connect" THEN <<TRUE, h, FALSE>>
  ELSE <<connected, conn_handle, ble_needs_restart>>

\* the failed call was a write of the recipe or custom characteristic
C8_LightCharWrite(op, at) == op = "connect" /\ at \in {8, 9}

\* C8 as stated: when a notification or a characteristic write fails while
\* connected, a peer-gone code (10, 11, 19, 104, 128) forces Disconnected
\* (handle cleared, advertising-needed set) and any other error leaves the
\* connection state unchanged.
C8_AnyWriteClassified ==
  [][(last_op'.op \in {"connect", "sensor_update", "recipe_write"} /\ last_op'.err # Ok) =>
       IF last_op'.err.type = "OSError" /\ last_op'.err.code \in {10, 11, 19, 104, 128}
       THEN ~connected' /\ conn_handle' = None /\ ble_needs_restart'
       ELSE <<connected', conn_handle', ble_needs_restart'>> = C8_Before(last_op'.op, last_op'.h)]_vars

\* C8: when a notification or a write of a sensor characteristic (combined
\* record, illuminance) fails while connected, a peer-gone code (10, 11,
\* 19, 104, 128) forces Disconnected (handle cleared, advertising-needed
\* set) and any other error leaves the connection state unchanged; a failed
\* write of the recipe or custom characteristic leaves it unchanged
\* whatever the code.  The handler completes in every case.
C8_TransportError ==
  [][(last_op'.op \in {"connect", "sensor_update", "recipe_write"} /\ last_op'.err # Ok) =>
       IF /\ last_op'.err.type = "OSError"
          /\ last_op'.err.code \in {10, 11, 19, 104, 128}
          /\ ~C8_LightCharWrite(last_op'.op, last_op'.at)
       THEN ~connected' /\ conn_handle' = None /\ ble_needs_restart'
       ELSE <<connected', conn_handle', ble_needs_restart'>> = C8_Before(last_op'.op, last_op'.h)]_vars

C8_Witness ==
  /\ last_op.op = "sensor_update"
  /\ last_op.err = OSError(104)
  /\ last_op.at = 2
  /\ ~connected
  /\ conn_handle = None
  /\ ble_needs_restart

\* C9 as stated: the connected flag and the connection handle are written
\* only by the connection-event callback and by the advertising-retry task.
C9_OnlyCallbackAndTask ==
  [][(connected' # connected \/ conn_handle' # conn_handle) =>
       last_op'.op \in {"connect", "disconnect"} \cup TaskOps]_vars

\* C9: the connected flag and the connection handle are written only by
\* the connection-event callback (connect, disconnect), by an operation
\* whose notification or sensor-characteristic write failed with a
\* peer-gone code (which clears both), and by cleanup; the
\* advertising-retry task never writes them.
C9_Writers ==
  [][(connected' # connected \/ conn_handle' # conn_handle) =>
       /\ last_op'.op \notin TaskOps
       /\ \/ last_op'.op \in {"connect", "disconnect", "cleanup"}
          \/ /\ last_op'.err.type = "OSError"
             /\ last_op'.err.code \in {10, 11, 19, 104, 128}
             /\ ~connected'
             /\ conn_handle' = None]_vars

C9_Witness ==
  /\ last_op.op = "recipe_write"
  /\ last_op.err = OSError(128)
  /\ ~connected
  /\ conn_handle = None

\* C10: a recipe write of one byte that is no index of RECIPE_KEYS is
\* answered with notification 101 and leaves the light colour, the cached
\* recipe name and the auto-cycle flag as they were.
C10_InvalidIndexNoChange ==
  [][(last_op'.op = "recipe_write" /\ Len(last_op'.val) = 1
        /\ last_op'.val[1] >= Len(RECIPE_KEYS)) =>
       /\ last_op'.err = Ok =>
            irq_calls'[Len(irq_calls')] =
              RadioCall("gatts_notify", conn_handle, control_handle, <<101>>)
       /\ current_recipe_tuple' = current_recipe_tuple
       /\ current_recipe_name' = current_recipe_name
       /\ auto_cycle_enabled' = auto_cycle_enabled]_vars

\* C11: a recipe write of one byte i that is an index of RECIPE_KEYS leaves
\* automatic control off; when no radio call fails the handler's calls
\* are, in this order, notification 103 if (and only if) automatic control
\* was on, then the strip writes of the fade, and last notification 100;
\* when the strip takes the writes the cached colour is
\* LIGHT_RECIPES[RECIPE_KEYS[i]].
C11_ValidRecipeWrite ==
  [][(last_op'.op = "recipe_write" /\ Len(last_op'.val) = 1 /\ last_op'.val[1] < 16) =>
       LET c == irq_calls'
           n == Len(c)
           ntf(code) == RadioCall("gatts_notify", conn_handle, control_handle, <<code>>)
       IN /\ ~auto_cycle_enabled'
          /\ last_op'.err = Ok =>
               /\ n >= 1 /\ c[n] = ntf(100)
               /\ auto_cycle_enabled => (n >= 2 /\ c[1] = ntf(103))
               /\ \A i \in 1..n :
                    /\ c[i] = ntf(103) => (i = 1 /\ auto_cycle_enabled)
                    /\ c[i].call = "gatts_notify" => c[i] \in {ntf(100), ntf(103)}
                    /\ c[i].call \in {"np_fade", "np_write"} =>
                         /\ i < n
                         /\ auto_cycle_enabled => i > 1
                         /\ c[i].data = LIGHT_RECIPES[RECIPE_KEYS[last_op'.val[1] + 1]]
               /\ current_recipe_tuple # LIGHT_RECIPES[RECIPE_KEYS[last_op'.val[1] + 1]] =>
                    \E i \in 1..n : c[i].call = "np_write"
          /\ last_op'.np =>
               current_recipe_tuple' = LIGHT_RECIPES[RECIPE_KEYS[last_op'.val[1] + 1]]]_vars

C11_Witness ==
  /\ last_op.op = "recipe_write"
  /\ last_op.val = <<4>>
  /\ last_op.err = Ok
  /\ last_op.np
  /\ Len(irq_calls) = 4
  /\ irq_calls[1].data = <<103>>
  /\ irq_calls[4].data = <<100>>
  /\ current_recipe_tuple = <<50, 255, 70, 200>>
  /\ ~auto_cycle_enabled

\* C12: a write of four bytes to the custom colour characteristic on the
\* current connection leaves automatic control off and, when the strip
\* takes the writes, leaves the cached colour equal to the four bytes
\* written.
C12_CustomWrite ==
  [][(last_op'.op = "custom_write" /\ Len(last_op'.val) = 4) =>
       /\ ~auto_cycle_enabled'
       /\ last_op'.np => current_recipe_tuple' = last_op'.val]_vars

\* the colour <<1, 2, 3, 4>>, no catalog colour, written while automatic
\* control was on: 103, the fade, 100
C12_Witness ==
  /\ last_op.op = "custom_write"
  /\ last_op.val = <<1, 2, 3, 4>>
  /\ last_op.err = Ok
  /\ last_op.np
  /\ irq_calls[1].data = <<103>>
  /\ current_recipe_tuple = <<1, 2, 3, 4>>
  /\ ~auto_cycle_enabled

\* a write the handlers have no well-formed reading of: a recipe write not
\* of one byte, a custom colour write not of four bytes, an empty control
\* write, an unknown opcode, or an opcode that takes a payload (13: one
\* byte, 14 and 15: two, 30: eight) with a payload of another length
C13_Malformed(op, val) ==
  \/ op = "recipe_write" /\ Len(val) # 1
  \/ op = "custom_write" /\ Len(val) # 4
  \/ /\ op = "control_write"
     /\ \/ val = <<>>
        \/ /\ val # <<>>
           /\ \/ val[1] \notin {0, 1, 2, 12, 13, 14, 15, 20, 30}
              \/ val[1] = 13 /\ Len(val) # 2
              \/ val[1] \in {14, 15} /\ Len(val) # 3
              \/ val[1] = 30 /\ Len(val) # 9

\* C13: every malformed write on the current connection is answered with
\* notification 101 (the last radio call of the handler, when no radio call
\* fails) and leaves the light colour, the auto-cycle flag, the settings in
\* memory and in the file, and the clock unchanged.
C13_MalformedAnswered ==
  [][C13_Malformed(last_op'.op, last_op'.val) =>
       /\ last_op'.err = Ok =>
            /\ irq_calls' # <<>>
            /\ irq_calls'[Len(irq_calls')] =
                 RadioCall("gatts_notify", conn_handle, control_handle, <<101>>)
       /\ UNCHANGED <<current_recipe_tuple, current_recipe_name, auto_cycle_enabled,
                      settingsVars, rtc>>]_vars

SchedulePrescribes ==
  LET now == rtc[5] * 60 + rtc[6]
      on_hm == parse_hm(current_on_time_str)[2]
      off_hm == parse_hm(current_off_time_str)[2]
      start == on_hm[1] * 60 + on_hm[2]
      end == off_hm[1] * 60 + off_hm[2]
      inside == IF start <= end THEN start <= now /\ now < end
                ELSE now >= start \/ now < end
  IN LIGHT_RECIPES[IF inside THEN current_active_recipe_name ELSE "off"]

\* C15: the first schedule tick after the resume delay of a manual command
\* has elapsed, made while a schedule transition is outstanding (the
\* interval test differs from the state the schedule last applied), applies
\* it: when the strip takes the writes the light then shows what the
\* schedule prescribes for the current time.
C15_ResumeAfterWindow ==
  [][(/\ last_op'.op = "tick"
      /\ override_window = "expired"
      /\ is_time_between(<<rtc[5], rtc[6]>>, parse_hm(current_on_time_str)[2],
                         parse_hm(current_off_time_str)[2]) # auto_cycle_light_should_be_on
      /\ last_op'.np) =>
       current_recipe_tuple' = SchedulePrescribes]_vars

\* C16: with automatic control on, the start-up application of the schedule
\* and every tick that applies a transition leave the light, when the strip
\* takes the writes, at the colour of the active recipe if the clock's
\* minute lies inside the on/off interval and at the colour of 'off' if it
\* does not; with the interval 10:00-20:00 (600..1200) and veg_growth,
\* minute 700 gives veg_growth and minute 1300 gives off.
C16_ScheduleApplied ==
  [][(/\ \/ last_op'.op = "initial_light" /\ auto_cycle_enabled
         \/ last_op'.op = "tick" /\ last_op'.val = <<1>>
      /\ last_op'.np) =>
       /\ auto_cycle_enabled
       /\ current_recipe_tuple' = SchedulePrescribes
       /\ (/\ current_on_time_str = <<"1", "0", ":", "0", "0">>
           /\ current_off_time_str = <<"2", "0", ":", "0", "0">>
           /\ current_active_recipe_name = "veg_growth") =>
            /\ <<rtc[5], rtc[6]>> = <<11, 40>> => current_recipe_tuple' = LIGHT_RECIPES["veg_growth"]
            /\ <<rtc[5], rtc[6]>> = <<21, 40>> => current_recipe_tuple' = LIGHT_RECIPES["off"]]_vars

\* the on-time was set to 10:00; at 11:40 the tick applied veg_growth
C16_Witness ==
  /\ last_op.op = "tick"
  /\ last_op.val = <<1>>
  /\ last_op.np
  /\ auto_cycle_enabled
  /\ current_on_time_str = <<"1", "0", ":", "0", "0">>
  /\ current_off_time_str = <<"2", "0", ":", "0", "0">>
  /\ current_active_recipe_name = "veg_growth"
  /\ <<rtc[5], rtc[6]>> = <<11, 40>>
  /\ current_recipe_tuple = <<50, 255, 70, 200>>

\* the block the schedule gives for the clock's minute: the interval and
\* its recipe inside the interval, none outside it
C17_EvaluatedBlock ==
  IF SchedulePrescribes = LIGHT_RECIPES["off"]
  THEN <<"none">>
  ELSE <<current_on_time_str, current_off_time_str, current_active_recipe_name>>

\* C17: a schedule tick made with automatic control on applies the schedule
\* when the block evaluated for the current time differs by value (on-time,
\* off-time or recipe) from the block applied last, and then, when the
\* strip takes the writes, the light shows the evaluated block's colour;
\* when the evaluated block equals the block applied last the tick applies
\* nothing and writes nothing to the strip.
C17_TickAppliesOnChange ==
  [][(last_op'.op = "tick" /\ auto_cycle_enabled) =>
       IF C17_EvaluatedBlock # applied_block
       THEN /\ last_op'.val = <<1>>
            /\ last_op'.np => current_recipe_tuple' = SchedulePrescribes
       ELSE /\ last_op'.val = <<0>>
            /\ irq_calls' = <<>>
            /\ current_recipe_tuple' = current_recipe_tuple]_vars

\* C19: a call of save_settings raises nothing; it returns False when an
\* argument is invalid or the write fails, and then the in-memory on-time,
\* off-time and active recipe are as before the call; when it returns True
\* the in-memory values are the arguments and reading the persisted file
\* back gives exactly the in-memory values.
C19_SaveAtomic ==
  [][last_op'.op = "save_settings" =>
       LET on_arg == last_op'.val[1]
           off_arg == last_op'.val[2]
           recipe_arg == last_op'.val[3]
           write_ok == last_op'.val[4]
           ret == last_op'.val[5]
           raised == last_op'.val[6]
           valid == /\ validate_time_format(on_arg)
                    /\ validate_time_format(off_arg)
                    /\ recipe_arg \in DOMAIN LIGHT_RECIPES
                    /\ recipe_arg # "off"
           mem_after == Settings(current_on_time_str', current_off_time_str', current_active_recipe_name')
       IN /\ ~raised
          /\ (~valid \/ ~write_ok) => ~ret
          /\ ~ret => mem_after = Mem
          /\ ret => /\ mem_after = Settings(on_arg, off_arg, recipe_arg)
                    /\ settings_file'.exists
                    /\ load_settings(mem_after, settings_file', CurSt, "ok", WriteOk).mem = mem_after]_vars

\* a write error after the first line: the file holds the new on-time only,
\* the memory the old one
C19_Witness ==
  /\ last_op.op = "save_settings"
  /\ last_op.val[1] = <<"1", "0", ":", "0", "0">>
  /\ ~last_op.val[4] /\ ~last_op.val[5]
  /\ settings_file = File(TRUE, << KEY.ON_TIME \o <<"=">> \o <<"1", "0", ":", "0", "0">> >>)
  /\ current_on_time_str # <<"1", "0", ":", "0", "0">>

\* C20: load_settings raises nothing and completes, whether the file is
\* missing, unreadable or holds malformed lines, missing keys or invalid
\* values; afterwards each in-memory setting is the stored value (the last
\* line that sets its key) when the file was read and that value is valid,
\* and the compiled-in default otherwise, so every in-memory setting is
\* valid.
C20_LoadFallsBack ==
  [][last_op'.op = "load_settings" =>
       LET was_read == settings_file.exists /\ last_op'.val[1] = "ok"
           stored_on == SettingsGet(settings_file.lines, KEY.ON_TIME)
           stored_off == SettingsGet(settings_file.lines, KEY.OFF_TIME)
           stored_recipe == SettingsGet(settings_file.lines, KEY.ACTIVE_RECIPE)
           recipe_valid == /\ stored_recipe[1]
                           /\ \E n \in DOMAIN LIGHT_RECIPES \ {"off"} : Spelling[n] = stored_recipe[2]
       IN /\ ~last_op'.val[3]
          /\ pc' = "settings"
          /\ current_on_time_str' =
               IF was_read /\ stored_on[1] /\ validate_time_format(stored_on[2])
               THEN stored_on[2] ELSE LIGHTS_ON_TIME
          /\ current_off_time_str' =
               IF was_read /\ stored_off[1] /\ validate_time_format(stored_off[2])
               THEN stored_off[2] ELSE LIGHTS_OFF_TIME
          /\ Spelling[current_active_recipe_name'] =
               IF was_read /\ recipe_valid THEN stored_recipe[2] ELSE Spelling[ACTIVE_RECIPE]
          /\ validate_time_format(current_on_time_str')
          /\ validate_time_format(current_off_time_str')
          /\ current_active_recipe_name' \in DOMAIN LIGHT_RECIPES \ {"off"}]_vars

\* the file sets ON_TIME twice and OFF_TIME to "20:00=1": the later on-time
\* and the stored recipe are taken, the off-time is the default
C20_Witness ==
  /\ last_op.op = "load_settings"
  /\ last_op.val[1] = "ok"
  /\ current_on_time_str = <<"0", "9", ":", "1", "5">>
  /\ current_off_time_str = LIGHTS_OFF_TIME
  /\ current_active_recipe_name = "warm"

\* the document sets each of the three keys to the value held in memory
C21_DocumentIs(file, mem) ==
  /\ file.exists
  /\ SettingsGet(file.lines, KEY.ON_TIME) = <<TRUE, mem.on>>
  /\ SettingsGet(file.lines, KEY.OFF_TIME) = <<TRUE, mem.off>>
  /\ SettingsGet(file.lines, KEY.ACTIVE_RECIPE) = <<TRUE, Spelling[mem.recipe]>>

\* C21: when load_settings finds the settings file missing, unreadable, or
\* with a key missing or set to an invalid value, and the file can be
\* written, then after the load the file sets every key to the value held
\* in memory.
C21_LoadRewrites ==
  [][(/\ last_op'.op = "load_settings"
      /\ last_op'.val[2]
      /\ \/ ~settings_file.exists
         \/ last_op'.val[1] # "ok"
         \/ ~C21_DocumentIs(settings_file,
                            load_settings(Mem, settings_file, CurSt, "ok", WriteOk).mem)) =>
       C21_DocumentIs(settings_file',
                      Settings(current_on_time_str', current_off_time_str',
                               current_active_recipe_name'))]_vars

\* C22: after a fade_to with a four-channel target in which no strip write
\* raises, whatever the cached colour before, the target and the duration,
\* the cached colour is the clamped target and so is the colour of the last
\* write handed to the strip (when the fade wrote at all).
C22_FadeEndsOnTarget ==
  [][(last_op'.op = "fade_to" /\ Len(last_op'.val[1]) = 4 /\ last_op'.val[3] = {}) =>
       /\ current_recipe_tuple' = ClampTuple(last_op'.val[1])
       /\ current_recipe_name' = LookupName(ClampTuple(last_op'.val[1]))
       /\ irq_calls' # <<>> =>
            irq_calls'[Len(irq_calls')] =
              RadioCall("np_write", None, "", ClampTuple(last_op'.val[1]))
       /\ current_recipe_tuple # ClampTuple(last_op'.val[1]) => irq_calls' # <<>>]_vars

\* from off to <<1, 2, 3, 4>> in three steps: the steps write <<0, 0, 0, 0>>,
\* <<0, 1, 1, 1>>, <<1, 1, 2, 3>> and <<1, 2, 3, 4>>, the closing set_all
\* writes <<1, 2, 3, 4>>
C22_Witness ==
  /\ last_op.op = "fade_to"
  /\ last_op.val = << <<1, 2, 3, 4>>, 12, {} >>
  /\ Len(irq_calls) = 5
  /\ irq_calls[2].data = <<0, 1, 1, 1>>
  /\ irq_calls[3].data = <<1, 1, 2, 3>>
  /\ irq_calls[5].data = <<1, 2, 3, 4>>
  /\ current_recipe_tuple = <<1, 2, 3, 4>>

\* C23: a fade_to whose target (clamped) is the cached colour hands nothing
\* to the strip, whatever the duration, and a set_all with the cached colour
\* hands nothing to the strip either; both leave the cached colour and the
\* recipe name as they were.
C23_NoWriteOnSameColour ==
  [][(/\ last_op'.op \in {"fade_to", "set_all"}
      /\ Len(last_op'.val[1]) = 4
      /\ ClampTuple(last_op'.val[1]) = current_recipe_tuple) =>
       /\ irq_calls' = <<>>
       /\ current_recipe_tuple' = current_recipe_tuple
       /\ current_recipe_name' = current_recipe_name]_vars

\* a fade of 0.2 s to veg_growth while the light shows veg_growth
C23_Witness ==
  /\ last_op.op = "fade_to"
  /\ last_op.val[1] = <<50, 255, 70, 200>>
  /\ last_op.val[2] = 20
  /\ irq_calls = <<>>
  /\ current_recipe_tuple = <<50, 255, 70, 200>>
  /\ current_recipe_name = "veg_growth"

\* C24: the cached colour and every colour handed to the strip have all
\* four channels in 0..255, each channel of a target being clamped on its
\* own: a fade_to or set_all with the target <<300, -10, 255, 256>> writes
\* and, when the closing write is taken, caches <<255, 0, 255, 255>>.
C24_Clamped ==
  /\ \A c \in 1..4 : current_recipe_tuple[c] \in 0..255
  /\ \A i \in 1..Len(irq_calls) :
       irq_calls[i].call \in {"np_write", "np_write_failed"} =>
         \A c \in 1..4 : irq_calls[i].data[c] \in 0..255
  /\ (/\ last_op.op \in {"fade_to", "set_all"}
      /\ last_op.val[1] = <<300, 0 - 10, 255, 256>>
      /\ irq_calls # <<>>) =>
       /\ irq_calls[Len(irq_calls)].data = <<255, 0, 255, 255>>
       /\ irq_calls[Len(irq_calls)].call = "np_write" =>
            current_recipe_tuple = <<255, 0, 255, 255>>

\* a fade of 0.12 s from off to <<300, -10, 255, 256>>
C24_Witness ==
  /\ last_op.op = "fade_to"
  /\ last_op.val = << <<300, 0 - 10, 255, 256>>, 12, {} >>
  /\ Len(irq_calls) = 5
  /\ irq_calls[1].data = <<0, 0, 0, 0>>
  /\ irq_calls[2].data = <<85, 0, 85, 85>>
  /\ current_recipe_tuple = <<255, 0, 255, 255>>

\* C25: a fade_to in which strip writes raise still attempts every write
\* of the fade (one per step of the loop and the closing one) and returns,
\* and the cached colour is the target once the closing write has been
\* attempted, whether the strip took it or not.
C25_FadeSurvivesWriteErrors ==
  [][(/\ last_op'.op = "fade_to"
      /\ Len(last_op'.val[1]) = 4
      /\ ClampTuple(last_op'.val[1]) # current_recipe_tuple) =>
       LET scaled == (last_op'.val[2] * FADE_STEPS_PER_SECOND) \div 100
           writes == IF last_op'.val[2] < 5 THEN 1
                     ELSE (IF scaled < 1 THEN 1 ELSE scaled) + 2
       IN /\ Len(irq_calls') = writes
          /\ \A i \in 1..writes :
               irq_calls'[i].call = IF i \in last_op'.val[3] THEN "np_write_failed" ELSE "np_write"
          /\ current_recipe_tuple' = ClampTuple(last_op'.val[1])]_vars

\* C26: write events are handed to the handler one at a time in the order
\* of arrival, and for an event of the current connection the handler
\* works on the value that event's write put into the characteristic: a
\* recipe write of a valid index leaves, when the strip takes the writes,
\* the catalog colour of that index, a custom colour write of four bytes
\* the colour written.
C26_WritesInOrder ==
  [][last_op'.op = "irq_gatts_write" =>
       LET e == Head(pending_writes)
       IN /\ pending_writes' = Tail(pending_writes)
          /\ e.conn = conn_handle =>
               /\ last_op'.val = e.value
               /\ (e.handle = recipe_handle /\ last_op'.np) =>
                    current_recipe_tuple' = LIGHT_RECIPES[RECIPE_KEYS[e.value[1] + 1]]
               /\ (e.handle = custom_handle /\ last_op'.np) =>
                    current_recipe_tuple' = e.value]_vars

\* C27: an environment reading that is absent (None) is never published as
\* the number zero: on a sensor update the bytes written to the
\* illuminance characteristic and notified for it differ from the bytes of
\* a reading of 0 when the illuminance is absent, and in the combined
\* record the field of an absent reading differs from the field of a
\* reading of 0.
C27_AbsentIsNotZero ==
  [][last_op'.op = "sensor_update" =>
       \A i \in 1..Len(irq_calls') :
         LET c == irq_calls'[i]
             parts == split(c.data, ",")
         IN /\ (c.handle = illuminance_handle /\ last_lux = None) => c.data # pack_f(0)
            /\ c.handle = combined_sensor_handle =>
                 /\ Len(parts) = 5
                 /\ last_temp_c = None => parts[1] # format_f(0, 1)
                 /\ last_humidity = None => parts[2] # format_f(0, 1)
                 /\ last_co2 = None => parts[3] # format_f(0, 0)
                 /\ last_pressure = None => parts[4] # format_f(0, 2)
                 /\ last_lux = None => parts[5] # format_f(0, 2)]_vars

\* C28: a control write of opcode 1 on the current connection leaves
\* automatic control off and the settings as they were and, when the strip
\* takes the writes, leaves the cached colour equal to the catalog colour
\* of the active recipe held in memory, whichever recipe an earlier opcode
\* 13 made active; when no radio call fails the last call of the handler
\* is notification 100.
C28_LightsOn ==
  [][(last_op'.op = "control_write" /\ last_op'.val # <<>> /\ last_op'.val[1] = 1) =>
       /\ ~auto_cycle_enabled'
       /\ UNCHANGED settingsVars
       /\ last_op'.np => current_recipe_tuple' = LIGHT_RECIPES[current_active_recipe_name]
       /\ last_op'.err = Ok =>
            /\ irq_calls' # <<>>
            /\ irq_calls'[Len(irq_calls')] =
                 RadioCall("gatts_notify", conn_handle, control_handle, <<100>>)]_vars

\* lights on after opcode 13 made bloom (index 5) the active recipe in
\* place of the configured one
C28_Witness ==
  /\ last_op.op = "control_write"
  /\ last_op.val = <<1>>
  /\ last_op.err = Ok
  /\ last_op.np
  /\ current_active_recipe_name = RECIPE_KEYS[6]
  /\ current_active_recipe_name # ACTIVE_RECIPE
  /\ current_recipe_tuple = LIGHT_RECIPES[RECIPE_KEYS[6]]
  /\ ~auto_cycle_enabled
  /\ irq_calls[Len(irq_calls)].data = <<100>>

\* C29: a control write of opcode 2 on the current connection inverts the
\* auto-cycle flag, changes neither the light colour nor the settings nor
\* the clock, writes nothing to the strip and sends no acknowledge; the
\* handler makes at most one radio call and, when no radio call fails,
\* exactly one: the notification of 102 when the flag is now on, of 103
\* when it is now off.
C29_Toggle ==
  [][(last_op'.op = "control_write" /\ last_op'.val # <<>> /\ last_op'.val[1] = 2) =>
       /\ auto_cycle_enabled' = ~auto_cycle_enabled
       /\ UNCHANGED <<current_recipe_tuple, current_recipe_name, settingsVars, rtc>>
       /\ Len(irq_calls') <= 1
       /\ \A i \in 1..Len(irq_calls') :
            irq_calls'[i] = RadioCall("gatts_notify", conn_handle, control_handle,
                                      <<IF auto_cycle_enabled' THEN 102 ELSE 103>>)
       /\ last_op'.err = Ok => Len(irq_calls') = 1]_vars

\* the toggle that switches automatic control back on after a manual
\* command had switched it off
C29_Witness ==
  /\ last_op.op = "control_write"
  /\ last_op.val = <<2>>
  /\ last_op.err = Ok
  /\ auto_cycle_enabled
  /\ override_window = "open"
  /\ irq_calls = <<RadioCall("gatts_notify", conn_handle, control_handle, <<102>>)>>

\* C30: a control write of opcode 13 on the current connection with a
\* one-byte payload i that indexes a recipe of RECIPE_KEYS which may be
\* the active one (any but 'off'), whose write to the settings file
\* succeeds, leaves RECIPE_KEYS[i] the active recipe in memory and in the
\* file, with the on-time and the off-time as they were, and, when no
\* radio call fails, makes one radio call, the settings notification 113.
\* With a payload of another length, an index outside RECIPE_KEYS or a
\* save that fails (the recipe is refused or the write raises) the
\* settings in memory are unchanged and, when no radio call fails, the one
\* radio call is notification 101; the file is untouched unless a write
\* was begun. The light, the auto-cycle flag and the clock are unchanged
\* in every case.
C30_SetActiveRecipe ==
  [][(last_op'.op = "control_write" /\ last_op'.val # <<>> /\ last_op'.val[1] = 13) =>
       LET payload == Tail(last_op'.val)
           indexed == Len(payload) = 1 /\ payload[1] < Len(RECIPE_KEYS)
           saved == indexed /\ RECIPE_KEYS[payload[1] + 1] # "off" /\ last_op'.wr.ok
           ntf(code) == RadioCall("gatts_notify", conn_handle, control_handle, <<code>>)
       IN /\ UNCHANGED <<lightVars, rtc, current_on_time_str, current_off_time_str>>
          /\ saved =>
               /\ current_active_recipe_name' = RECIPE_KEYS[payload[1] + 1]
               /\ settings_file' = File(TRUE, SettingsLines(current_on_time_str, current_off_time_str,
                                                            RECIPE_KEYS[payload[1] + 1]))
               /\ load_settings(Mem, settings_file', CurSt, "ok", WriteOk).mem.recipe =
                    RECIPE_KEYS[payload[1] + 1]
               /\ last_op'.err = Ok => irq_calls' = <<ntf(113)>>
          /\ ~saved =>
               /\ current_active_recipe_name' = current_active_recipe_name
               /\ (~indexed \/ RECIPE_KEYS[payload[1] + 1] = "off") =>
                    settings_file' = settings_file
               /\ last_op'.err = Ok => irq_calls' = <<ntf(101)>>]_vars

\* index 5 (bloom) saved in place of the configured recipe
C30_Witness ==
  /\ last_op.op = "control_write"
  /\ last_op.val = <<13, 5>>
  /\ last_op.err = Ok
  /\ last_op.wr.ok
  /\ current_active_recipe_name = RECIPE_KEYS[6]
  /\ current_active_recipe_name # ACTIVE_RECIPE
  /\ settings_file = File(TRUE, SettingsLines(current_on_time_str, current_off_time_str, RECIPE_KEYS[6]))
  /\ irq_calls = <<RadioCall("gatts_notify", conn_handle, control_handle, <<113>>)>>

\* C31: a control write of opcode 30 on the current connection sets the
\* clock exactly when its payload is 8 bytes (year low byte first, month,
\* day, hour, minute, second, weekday) with the year in 2023..2100, the
\* month in 1..12, the day in 1..31, the hour in 0..23, the minute and the
\* second in 0..59 and the weekday in 0..6: the clock then reads the
\* fields written and, when no radio call fails, the one radio call is
\* the time notification 131. Otherwise the clock is unchanged and, when
\* no radio call fails, the one radio call is notification 101. The light,
\* the auto-cycle flag and the settings are unchanged either way.
C31_SetClock ==
  [][(last_op'.op = "control_write" /\ last_op'.val # <<>> /\ last_op'.val[1] = 30) =>
       LET p == Tail(last_op'.val)
           yr == p[1] + 256 * p[2]
           valid == /\ Len(p) = 8
                    /\ yr \in 2023..2100 /\ p[3] \in 1..12 /\ p[4] \in 1..31
                    /\ p[5] \in 0..23 /\ p[6] \in 0..59 /\ p[7] \in 0..59 /\ p[8] \in 0..6
           c == irq_calls'
       IN /\ UNCHANGED <<lightVars, settingsVars>>
          /\ valid =>
               /\ <<rtc'[1], rtc'[2], rtc'[3], rtc'[5], rtc'[6], rtc'[7]>> =
                    <<yr, p[3], p[4], p[5], p[6], p[7]>>
               /\ last_op'.err = Ok =>
                    /\ Len(c) = 1
                    /\ <<c[1].call, c[1].conn, c[1].handle>> =
                         <<"gatts_notify", conn_handle, control_handle>>
                    /\ c[1].data[1] = 131
          /\ ~valid =>
               /\ rtc' = rtc
               /\ last_op'.err = Ok =>
                    c = <<RadioCall("gatts_notify", conn_handle, control_handle, <<101>>)>>]_vars

\* the clock, at 09:00 on 2025-01-01, set to 2025-06-15 11:40:30
C31_Witness ==
  /\ last_op.op = "control_write"
  /\ last_op.val = <<30, 233, 7, 6, 15, 11, 40, 30, 3>>
  /\ last_op.err = Ok
  /\ <<rtc[1], rtc[2], rtc[3], rtc[5], rtc[6], rtc[7]>> = <<2025, 6, 15, 11, 40, 30>>
  /\ Len(irq_calls) = 1
  /\ irq_calls[1].data[1] = 131

\* C32: a control write of opcode 12 on the current connection changes
\* neither the light colour nor the auto-cycle flag nor the settings nor
\* the clock, writes nothing to the strip and sends no acknowledge; when no
\* radio call fails its notifications are, in this order and all to the
\* recorded connection, the settings (113), the combined environment record
\* and the illuminance (each written to its characteristic first), the
\* memory (121) and the time (131); a failed call only removes calls from
\* this sequence.
C32_FullStatus ==
  [][(last_op'.op = "control_write" /\ last_op'.val # <<>> /\ last_op'.val[1] = 12) =>
       LET c == irq_calls'
           full == << <<"gatts_notify", control_handle, <<113>>>>,
                      <<"gatts_write", combined_sensor_handle, <<>>>>,
                      <<"gatts_notify", combined_sensor_handle, <<>>>>,
                      <<"gatts_write", illuminance_handle, <<>>>>,
                      <<"gatts_notify", illuminance_handle, <<>>>>,
                      <<"gatts_notify", control_handle, <<121>>>>,
                      <<"gatts_notify", control_handle, <<131>>>> >>
       IN /\ UNCHANGED <<lightVars, settingsVars, rtc>>
          /\ IsSubSeq(Tags(c), full)
          /\ \A i \in 1..Len(c) : c[i].call = "gatts_notify" => c[i].conn = conn_handle
          /\ last_op'.err = Ok => Tags(c) = full]_vars

\* the full status asked for after a manual command, with bloom the active
\* recipe
C32_Witness ==
  /\ last_op.op = "control_write"
  /\ last_op.val = <<12>>
  /\ last_op.err = Ok
  /\ ~auto_cycle_enabled
  /\ current_active_recipe_name = RECIPE_KEYS[6]
  /\ Len(irq_calls) = 7
  /\ irq_calls[1].data = <<113>>
  /\ irq_calls[6].data = <<121>>
  /\ irq_calls[7].data[1] = 131

\* the events of one kind in the log of a watched fade, as the set of the
\* steps they belong to
C33_Steps(calls, what) ==
  {calls[i].data[1] : i \in {j \in 1..Len(calls) : calls[j].call = what}}

\* the number of steps the fade of duration_cs hundredths of a second makes
\* after step 0
C33_NumSteps(duration_cs) ==
  IF (duration_cs * FADE_STEPS_PER_SECOND) \div 100 < 1 THEN 1
  ELSE (duration_cs * FADE_STEPS_PER_SECOND) \div 100

C34_NameMatchesColour ==
  /\ current_recipe_name = "custom" <=>
       ~\E k \in DOMAIN LIGHT_RECIPES : LIGHT_RECIPES[k] = current_recipe_tuple
  /\ current_recipe_name # "custom" =>
       /\ current_recipe_name \in DOMAIN LIGHT_RECIPES
       /\ LIGHT_RECIPES[current_recipe_name] = current_recipe_tuple

\* a custom colour written while veg_growth was shown, the strip refusing
\* the closing write: colour and name are still those of veg_growth
C34_Witness ==
  /\ last_op.op = "custom_write"
  /\ last_op.val = <<1, 2, 3, 4>>
  /\ ~last_op.np
  /\ current_recipe_name = "veg_growth"
  /\ current_recipe_tuple = LIGHT_RECIPES["veg_growth"]

\* C35: whenever the main loop is between its steps (no advertising start
\* and no restart check is under way) and the device is neither connected
\* nor advertising, the advertising-needed flag is set: no interleaving of
\* connect, disconnect and transport-failure events with the retry task
\* leaves the device unreachable with nothing asking for a restart.
C35_RestartRequested ==
  (pc = "idle" /\ ~connected /\ ~advertising) => ble_needs_restart

\* C36: the radio is never advertising while a peer is recorded as
\* connected, whatever the interleaving of connect, disconnect and
\* transport-failure events with the retry task.
C36_NoAdvertisingWhileConnected ==
  ~(connected /\ advertising)

\* C37: in every state the connected flag is true exactly when a connection
\* handle is recorded; every notification of an operation went to the
\* handle recorded while the operation ran (the handle of the connect event
\* for the connect handler, the handle recorded before for every other
\* operation, which then found the flag true); and once a peer-gone error
\* had cleared flag and handle the operation handed no further
\* notification to the radio (the notifications in its log are among the
\* radio calls made before the call that failed).
C37_FlagIffHandle ==
  /\ [](connected <=> conn_handle # None)
  /\ [][\A i \in 1..Len(irq_calls') :
          irq_calls'[i].call = "gatts_notify" =>
            /\ irq_calls'[i].conn \in ConnHandles
            /\ IF last_op'.op = "connect" THEN irq_calls'[i].conn = last_op'.h
               ELSE connected /\ irq_calls'[i].conn = conn_handle
            /\ (~connected' /\ last_op'.err \in {OSError(c) : c \in disconnect_codes}) =>
                 Cardinality({j \in 1..i : irq_calls'[j].call \in {"gatts_notify", "gatts_write"}})
                   < last_op'.at]_vars

\* the connect handler lost the peer at its third radio call, the
\* notification of the combined record: the settings notification had gone
\* out, no notification followed
C37_Witness ==
  /\ last_op.op = "connect"
  /\ last_op.err = OSError(128)
  /\ last_op.at = 3
  /\ ~connected /\ conn_handle = None
  /\ irq_calls[2].call = "gatts_notify"
  /\ irq_calls[2].conn = last_op.h
  /\ \A i \in 3..Len(irq_calls) : irq_calls[i].call # "gatts_notify"

C39_ForeignEventsIgnored ==
  [][/\ ( /\ last_op'.op \in {"recipe_write", "custom_write", "control_write", "write_ignored"}
          /\ last_op'.h # conn_handle )
        => /\ last_op'.op = "write_ignored"
           /\ irq_calls' = <<>>
           /\ UNCHANGED <<bleVars, advertising, pc, task_calls, skips, lightVars, timeVars, envVars, cmdVars>>
     /\ ( /\ last_op'.op = "disconnect"
          /\ conn_handle # None
          /\ last_op'.h # conn_handle )
        => UNCHANGED bleVars]_vars

\* a radio call of the connect handler failed with a peer-gone error, which
\* cleared the recorded handle while the link is still up; the peer's write
\* on that link was ignored
C39_Witness ==
  /\ last_op.op = "write_ignored"
  /\ last_op.h \in links
  /\ links = {last_op.h}
  /\ conn_handle = None
  /\ ~connected
  /\ ble_needs_restart
  /\ current_recipe_name = "off"

\* a disconnect event for a link other than the recorded one was taken
\* while a peer is connected
C39_WitnessDisconnect ==
  /\ last_op.op = "disconnect"
  /\ last_op.val # <<None>>
  /\ last_op.val # <<last_op.h>>
  /\ connected
  /\ conn_handle = last_op.val[1]

\* C40: the weekday round-trips: when a control write of opcode 30 with
\* valid fields and the client weekday w in 0..6 sets the clock, the clock
\* keeps the weekday (w + 6) % 7 and every time notification (131) of that
\* handler ends in the byte w, one being sent when no radio call fails; and
\* the time notification of a later request (opcode 12) ends in the client
\* weekday of the weekday the clock holds.
C40_WeekdayRoundTrip ==
  [][LET v == last_op'.val
         TimeUpdates == {i \in 1..Len(irq_calls') :
                           /\ irq_calls'[i].call = "gatts_notify"
                           /\ irq_calls'[i].handle = control_handle
                           /\ irq_calls'[i].data # <<>>
                           /\ irq_calls'[i].data[1] = NTF_TIME_UPDATE}
     IN /\ ( /\ last_op'.op = "control_write" /\ Len(v) = 9 /\ v[1] = 30
             /\ v[2] + 256 * v[3] \in 2023..2100 /\ v[4] \in 1..12 /\ v[5] \in 1..31
             /\ v[6] \in 0..23 /\ v[7] \in 0..59 /\ v[8] \in 0..59 /\ v[9] \in 0..6 )
           => /\ rtc'[4] = (v[9] + 6) % 7
              /\ \A i \in TimeUpdates : Len(irq_calls'[i].data) = 9 /\ irq_calls'[i].data[9] = v[9]
              /\ last_op'.err = Ok => TimeUpdates # {}
        /\ (last_op'.op = "control_write" /\ v = <<12>>)
           => /\ \A i \in TimeUpdates : irq_calls'[i].data[9] = (rtc[4] + 1) % 7
              /\ last_op'.err = Ok => TimeUpdates # {}]_vars

\* the client weekday 0 is kept as 6 and reported as 0
C40_Witness ==
  /\ last_op.op = "control_write"
  /\ last_op.val = <<30, 233, 7, 6, 15, 11, 40, 30, 0>>
  /\ last_op.err = Ok
  /\ rtc[4] = 6
  /\ Len(irq_calls) = 1
  /\ irq_calls[1].call = "gatts_notify"
  /\ irq_calls[1].data = <<131, 233, 7, 6, 15, 11, 40, 30, 0>>

TypeOK ==
  /\ connected \in BOOLEAN
  /\ conn_handle \in ConnHandles \cup {None}
  /\ ble_needs_restart \in BOOLEAN
  /\ advertising \in BOOLEAN
  /\ links \subseteq ConnHandles
  /\ auto_cycle_enabled \in BOOLEAN
====
